---- MODULE Spec2Model ----
(***************************************************************************)
(* Layout engine of efmt: the layout tree builder (Formatter2), the region *)
(* renderer (ItemToString) and the transactional writer it drives.         *)
(*                                                                         *)
(* A run is: the parser hands over the source (text, tokens, comments);    *)
(* grammar items call the builder (add_token, add_space, add_newline,      *)
(* subregion); format() renders the tree.  The renderer is a recursive     *)
(* function in the code; here every format_item call is one step of a      *)
(* machine whose stack `frames` holds the format_region activations and    *)
(* whose stack `writer` holds the transactions.                            *)
(***************************************************************************)
EXTENDS Integers, Sequences, FiniteSets, TLC

VARIABLES
    pc,           \* "build" | "render" | "done" | "panic"
    text,         \* Formatter2.text: the source, a sequence of characters
    tokens,       \* the visible tokens of the source, in source order
    comments,     \* Formatter2.comments: the comment table, ascending by start
    root,         \* the grammar item the parser made of the source
    fmt,          \* Formatter2: [item, next_position, last_token]
    parents,      \* regions saved by the subregion calls in progress
    built,        \* number of builder calls made so far, by kind
    tree,         \* the layout tree format() hands to the renderer (its `item`)
    max_columns,  \* ItemToString.max_columns
    writer,       \* ItemToString.writer: the transaction stack, root first
    frames,       \* the format_region activations in progress, outermost first
    err,          \* the Err a callee has just returned, or "Ok"
    ret,          \* the last return of format_region: what it saw and left
    pass,         \* 1: formatting the source, 2: formatting the output again
    out1          \* the text the first pass produced

vars == <<pc, text, tokens, comments, root, fmt, parents, built, tree, max_columns,
          writer, frames, err, ret, pass, out1>>

----------------------------------------------------------------------------
(* Bounds of the model.                                                    *)

MaxLexemes == 2      \* tokens and comments in a source
MaxCalls == 4        \* builder calls (add_token, add_space, add_newline, subregion) per tree
MaxElems == 3        \* elements of a delimited sequence

Widths == {6}        \* the values of max_columns

\* The counts add_spaces is called with.
SpaceCounts == {2}

\* The characters the writer treats specially; every other character of a
\* source is a number >= 2, distinct for each source offset.
NL == 0
SP == 1

USIZE_MAX == 999

----------------------------------------------------------------------------
(* Positions and spans.                                                    *)

Position_new(line, offset) == [line |-> line, offset |-> offset]

\* The tokenizer numbers the lines of a source from 1.
FirstLine == 1

is_empty(span) == span.start = span.end

Last(s) == s[Len(s)]
Front(s) == SubSeq(s, 1, Len(s) - 1)
Max(a, b) == IF a >= b THEN a ELSE b

RECURSIVE Repeat(_, _)
Repeat(c, n) == IF n <= 0 THEN <<>> ELSE <<c>> \o Repeat(c, n - 1)

----------------------------------------------------------------------------
(* The parser's result: a source is a sequence of lexemes, each a token or *)
(* a comment of len characters that follows gap line breaks (after a       *)
(* comment at least one: a comment runs to the end of its line).           *)

Lexemes ==
    { [kind |-> "alnum",   len |-> 2, gap |-> 0],
      [kind |-> "alnum",   len |-> 7, gap |-> 2],
      [kind |-> "comment", len |-> 2, gap |-> 0] }

RECURSIVE SeqsUpTo(_, _)
SeqsUpTo(S, n) ==
    IF n = 0 THEN { <<>> }
    ELSE LET shorter == SeqsUpTo(S, n - 1)
         IN  shorter \cup { Append(s, x) : s \in shorter, x \in S }

Sources == SeqsUpTo(Lexemes, MaxLexemes)

\* A comment whose last character takes two bytes in UTF-8: the text is a
\* sequence of bytes and the offsets of a Position count bytes.
Utf8Comment == [kind |-> "comment_utf8", len |-> 3, gap |-> 0]

CommentKinds == {"comment", "comment_utf8"}

\* Lays the lexemes out as text: the separator before a lexeme is its line
\* breaks, or one space when it stays on the line.
RECURSIVE Lex(_, _, _, _, _)
Lex(src, i, txt, line, spans) ==
    IF i > Len(src) THEN [text |-> txt, spans |-> spans]
    ELSE LET lx == src[i]
             afterComment == i > 1 /\ src[i - 1].kind \in CommentKinds
             gap == IF afterComment THEN Max(lx.gap, 1) ELSE lx.gap
             sep == IF gap > 0 THEN Repeat(NL, gap)
                    ELSE IF i = 1 THEN <<>> ELSE <<SP>>
             start == Len(txt) + Len(sep)
             body == [k \in 1..lx.len |-> start + k + 1]
             span == [type  |-> IF lx.kind \in CommentKinds THEN "Comment" ELSE "Token",
                      kind  |-> lx.kind,
                      start |-> Position_new(line + gap, start),
                      end   |-> Position_new(line + gap, start + lx.len)]
         IN  Lex(src, i + 1, txt \o sep \o body, line + gap, Append(spans, span))

\* A delimited sequence: an opening symbol, elements separated by commas, a
\* closing symbol.  An element is one token of one or two characters, or two
\* tokens that the grammar separates with a forced newline.
ElemKinds == { [kind |-> "tok", len |-> 1], [kind |-> "tok", len |-> 2],
               [kind |-> "block", len |-> 1] }

Sym == [kind |-> "sym", len |-> 1, gap |-> 0]
Alnum(len) == [kind |-> "alnum", len |-> len, gap |-> 0]

ElemLexemes(e) ==
    IF e.kind = "tok" THEN << Alnum(e.len) >> ELSE << Alnum(e.len), Alnum(e.len) >>

RECURSIVE SequenceLexemes(_, _)
SequenceLexemes(elems, i) ==
    IF elems = <<>> THEN << Sym, Sym >>
    ELSE IF i > Len(elems) THEN << Sym >>
    ELSE << Sym >> \o ElemLexemes(elems[i]) \o SequenceLexemes(elems, i + 1)

\* The parse of the spans of a sequence: [open, items, delimiters, close].
RECURSIVE ParseElems(_, _, _, _)
ParseElems(elems, i, spans, k) ==
    IF i > Len(elems) THEN [items |-> <<>>, delimiters |-> <<>>]
    ELSE LET e == elems[i]
             item == IF e.kind = "tok" THEN [kind |-> "tok", token |-> spans[k]]
                     ELSE [kind |-> "block", head |-> spans[k], tail |-> spans[k + 1]]
             used == IF e.kind = "tok" THEN 1 ELSE 2
             rest == ParseElems(elems, i + 1, spans, k + used + 1)
         IN  [items |-> <<item>> \o rest.items,
              delimiters |-> IF i < Len(elems)
                             THEN <<spans[k + used]>> \o rest.delimiters
                             ELSE <<>>]

ParseSequence(elems, spans) ==
    LET p == ParseElems(elems, 1, spans, 2)
    IN  [open |-> spans[1], items |-> p.items, delimiters |-> p.delimiters,
         close |-> spans[Len(spans)]]

IsToken(x) == x.type = "Token"
IsComment(x) == x.type = "Comment"

----------------------------------------------------------------------------
(* Layout tree (Item).                                                     *)

Inherit == [kind |-> "Inherit", n |-> 0]
Offset(n) == [kind |-> "Offset", n |-> n]
ParentOffset(n) == [kind |-> "ParentOffset", n |-> n]
CurrentColumn == [kind |-> "CurrentColumn", n |-> 0]

Always == [kind |-> "Always", too_long |-> FALSE, multi_line |-> FALSE,
           multi_line_parent |-> FALSE]
Never == [kind |-> "Never", too_long |-> FALSE, multi_line |-> FALSE,
          multi_line_parent |-> FALSE]
If(tl, ml, mlp) == [kind |-> "If", too_long |-> tl, multi_line |-> ml,
                    multi_line_parent |-> mlp]

if_too_long == If(TRUE, FALSE, FALSE)
if_too_long_or_multi_line == If(TRUE, TRUE, FALSE)
if_too_long_or_multi_line_parent == If(TRUE, FALSE, TRUE)

Space(n) == [type |-> "Space", n |-> n]
Newline(n) == [type |-> "Newline", n |-> n]
Region(indent, newline, items) ==
    [type |-> "Region", indent |-> indent, newline |-> newline, items |-> items]

Item_new == Region(CurrentColumn, Never, <<>>)

\* Item::add_token that pushes the token onto the region itself, whatever
\* its last item is.
Item_add_token_here(item, token) == [item EXCEPT !.items = Append(@, token)]

RECURSIVE Item_add_token(_, _)
Item_add_token(item, token) ==
    LET n == Len(item.items) IN
    IF n > 0 /\ item.items[n].type = "Region"
    THEN [item EXCEPT !.items[n] = Item_add_token(@, token)]
    ELSE [item EXCEPT !.items = Append(@, token)]

\* Item::add_region that pushes the region onto the region itself, whatever
\* its last item is.
Item_add_region_here(item, region) == [item EXCEPT !.items = Append(@, region)]

RECURSIVE Item_add_region(_, _)
Item_add_region(item, region) ==
    LET n == Len(item.items) IN
    IF n > 0 /\ item.items[n].type = "Region"
    THEN [item EXCEPT !.items[n] = Item_add_region(@, region)]
    ELSE [item EXCEPT !.items = Append(@, region)]

Item_add_space(item, n) == [item EXCEPT !.items = Append(@, Space(n))]

Item_add_newline(item, n) == [item EXCEPT !.items = Append(@, Newline(n))]

----------------------------------------------------------------------------
(* Builder (Formatter2).  These operators take and return the Formatter2   *)
(* record; the comment table is the variable `comments`.                   *)

Formatter2_new ==
    [item |-> Item_new, next_position |-> Position_new(0, 0), last_token |-> <<>>]

\* Two alphanumeric tokens need a separator; a symbol next to anything does not.
needs_space(last, token) == last.kind = "alnum" /\ token.kind = "alnum"

add_spaces(f, n) == [f EXCEPT !.item = Item_add_space(@, n)]

add_space(f) == [f EXCEPT !.item = Item_add_space(@, 1)]

add_newline(f) == [f EXCEPT !.item = Item_add_newline(@, 1)]

next_comment_start(f) ==
    LET later == { i \in 1..Len(comments) :
                     comments[i].start.offset >= f.next_position.offset }
    IN  IF later = {} THEN USIZE_MAX
        ELSE comments[CHOOSE i \in later : \A j \in later : i <= j].start.offset

CommentAt(offset) ==
    comments[CHOOSE i \in 1..Len(comments) : comments[i].start.offset = offset]

\* CommentToken::format2: the comment becomes a leaf of the tree, placed as a
\* token is.
CommentToken_format2(f, comment) == [f EXCEPT !.item = Item_add_token(@, comment)]

\* add_macros_and_comments that leaves the loop only when the table is
\* exhausted.
RECURSIVE add_macros_and_comments_all(_, _)
add_macros_and_comments_all(f, next_position) ==
    LET start == next_comment_start(f) IN
    IF start = USIZE_MAX THEN f
    ELSE LET comment == CommentAt(start)
         IN  add_macros_and_comments_all(
                 CommentToken_format2([f EXCEPT !.next_position = comment.end], comment),
                 next_position)

RECURSIVE add_macros_and_comments(_, _)
add_macros_and_comments(f, next_position) ==
    LET start == next_comment_start(f) IN
    IF next_position.offset < start THEN f
    ELSE LET comment == CommentAt(start)
         IN  add_macros_and_comments(
                 CommentToken_format2([f EXCEPT !.next_position = comment.end], comment),
                 next_position)

\* add_token_body without the implicit space.
add_token_body_no_space(f, token) ==
    LET f2 == add_macros_and_comments(f, token.start)
    IN  [f2 EXCEPT !.last_token = <<token>>, !.item = Item_add_token(@, token)]

\* Formatter2::add_token up to its assertion.
add_token_body(f, token) ==
    LET f1 == IF f.last_token # <<>> /\ needs_space(f.last_token[1], token)
              THEN add_space(f) ELSE f
        f2 == add_macros_and_comments(f1, token.start)
    IN  [f2 EXCEPT !.last_token = <<token>>, !.item = Item_add_token(@, token)]

\* Formatter2::add_token, its assertion holding.
Formatter2_add_token(f, token) ==
    [add_token_body(f, token) EXCEPT !.next_position = token.end]

add_token_asserts(f, token) ==
    add_token_body(f, token).next_position.offset <= token.end.offset

\* Formatter2::subregion up to the call of f: the builder f runs on.
subregion_begin(f, indent, newline) ==
    [f EXCEPT !.item = Region(indent, newline, <<>>)]

\* Formatter2::subregion after f returned: f was the builder at the call,
\* child is the builder as the closure left it.
subregion_end(f, child) ==
    [child EXCEPT !.item = Item_add_region(f.item, child.item)]

----------------------------------------------------------------------------
(* Grammar items of delimited sequences (items/components.rs).             *)

is_packable(e) == e.kind = "tok"

Element_format(f, e) ==
    IF e.kind = "tok" THEN Formatter2_add_token(f, e.token)
    ELSE Formatter2_add_token(add_newline(Formatter2_add_token(f, e.head)), e.tail)

CommaDelimiter_format(f, d) == add_space(Formatter2_add_token(f, d))

\* The loop shared by NonEmptyItems::format, format_multi_line and
\* packed_format: the items after the first, each under `newline`.
RECURSIVE ItemsAfterFirst(_, _, _, _)
ItemsAfterFirst(f, self, i, newline) ==
    IF i > Len(self.items) \/ i - 1 > Len(self.delimiters) THEN f
    ELSE LET f1 == CommaDelimiter_format(f, self.delimiters[i - 1])
             f2 == subregion_end(f1, Element_format(
                       subregion_begin(f1, Inherit, newline), self.items[i]))
         IN  ItemsAfterFirst(f2, self, i + 1, newline)

FirstThenRest(f, self, newline) ==
    LET g == subregion_begin(f, CurrentColumn, Never)
        first == subregion_end(g, Element_format(
                     subregion_begin(g, Inherit, Never), self.items[1]))
    IN  subregion_end(f, ItemsAfterFirst(first, self, 2, newline))

\* NonEmptyItems::format with packed_format's policy for the items.
NonEmptyItems_format_packed(f, self) == FirstThenRest(f, self, if_too_long)

NonEmptyItems_format(f, self) ==
    FirstThenRest(f, self, if_too_long_or_multi_line_parent)

NonEmptyItems_format_multi_line(f, self) == FirstThenRest(f, self, Always)

\* packed_format with NonEmptyItems::format's policy for the items.
packed_format_per_line(f, self) ==
    FirstThenRest(f, self, if_too_long_or_multi_line_parent)

packed_format(f, self) == FirstThenRest(f, self, if_too_long)

Items_format(f, self) ==
    IF self.items = <<>> THEN f ELSE NonEmptyItems_format(f, self)

MaybePackedItems_format(f, self) ==
    IF self.items = <<>> THEN f
    ELSE IF \A i \in 1..Len(self.items) : is_packable(self.items[i])
         THEN subregion_end(f, packed_format(
                  subregion_begin(f, CurrentColumn, Never), self))
         ELSE Items_format(f, self)

TupleLike_format(f, self) ==
    Formatter2_add_token(
        MaybePackedItems_format(Formatter2_add_token(f, self.open), self),
        self.close)

Parenthesized_format(f, self) ==
    Formatter2_add_token(
        LET g == Formatter2_add_token(f, self.open)
        IN  subregion_end(g, Items_format(
                subregion_begin(g, CurrentColumn, Never), self)),
        self.close)

Args_format(f, self) == Parenthesized_format(f, self)

Body_format(f, self) ==
    Formatter2_add_token(
        IF self.items = <<>> THEN Formatter2_add_token(f, self.open)
        ELSE NonEmptyItems_format_multi_line(Formatter2_add_token(f, self.open), self),
        self.close)

----------------------------------------------------------------------------
(* Transactional writer.  The stack is a sequence of transactions, the     *)
(* root first and the active one last; a transaction is [config, state].   *)
(* RegionWriter keeps Transaction's state and operations and takes a       *)
(* RegionConfig with the resolved indent and the three permissions.        *)

RegionConfig(max, indent, allow_multi_line, allow_too_long_line, multi_line_mode) ==
    [max_columns |-> max, indent |-> indent, trailing_columns |-> 0,
     allow_multi_line |-> allow_multi_line,
     allow_too_long_line |-> allow_too_long_line,
     multi_line_mode |-> multi_line_mode]

\* A newline fails in a transaction that forbids multi-line output and is not
\* in multi-line mode.
forbids_multi_line(config) == ~config.allow_multi_line /\ ~config.multi_line_mode

allows_too_long_line(config) == config.allow_too_long_line

\* The indent of a region transaction is the one its RegionConfig resolved.
calc_indent(tx) == tx.config.indent

Transaction_root(max) ==
    [config |-> RegionConfig(max, 0, TRUE, TRUE, FALSE),
     state  |-> [next_position |-> Position_new(0, 0), current_column |-> 0,
                 needs_whitespace |-> "None", formatted_text |-> <<>>]]

clone_for_new_transaction(state) == [state EXCEPT !.formatted_text = <<>>]

\* copy_from_committed_transaction with `=` where the code has push_str.
copy_from_committed_overwrites(state, commited) ==
    [state EXCEPT !.next_position = commited.next_position,
                  !.current_column = commited.current_column,
                  !.needs_whitespace = commited.needs_whitespace,
                  !.formatted_text = commited.formatted_text]

copy_from_committed_transaction(state, commited) ==
    [state EXCEPT !.next_position = commited.next_position,
                  !.current_column = commited.current_column,
                  !.needs_whitespace = commited.needs_whitespace,
                  !.formatted_text = @ \o commited.formatted_text]

start_new_transaction(w, config) ==
    Append(w, [config |-> config, state |-> clone_for_new_transaction(Last(w).state)])

\* commit that leaves the parent's current_column as it was.
commit_without_column(w) ==
    LET n == Len(w) - 1 IN
    [SubSeq(w, 1, n) EXCEPT
        ![n].state.next_position = Last(w).state.next_position,
        ![n].state.needs_whitespace = Last(w).state.needs_whitespace,
        ![n].state.formatted_text = @ \o Last(w).state.formatted_text]

commit(w) ==
    LET n == Len(w) - 1 IN
    [SubSeq(w, 1, n) EXCEPT ![n].state = copy_from_committed_transaction(@, Last(w).state)]

abort(w) == Front(w)

config(w) == Last(w).config

current_column(w) == Last(w).state.current_column

next_position(w) == Last(w).state.next_position

\* The whole text written so far: formatted_text of the root transaction.
RECURSIVE formatted_text(_)
formatted_text(w) ==
    IF w = <<>> THEN <<>> ELSE formatted_text(Front(w)) \o Last(w).state.formatted_text

\* <<c>> for Some(c), <<>> for None.
RECURSIVE last_char(_)
last_char(w) ==
    IF w = <<>> THEN <<>>
    ELSE LET t == Last(w).state.formatted_text
         IN  IF t # <<>> THEN <<Last(t)>> ELSE last_char(Front(w))

needs_whitespace(w, whitespace) ==
    LET c == last_char(w) IN
    IF c = <<>> THEN w
    ELSE IF c = <<NL>> THEN w
    ELSE IF c = <<SP>> /\ whitespace = "Blank" THEN w
    ELSE IF Last(w).state.needs_whitespace = "Newline" /\ whitespace = "Blank" THEN w
    ELSE [w EXCEPT ![Len(w)].state.needs_whitespace = whitespace]

\* Transaction::write with `>` where the code has `>=` in the column check.
RECURSIVE write_past_limit(_, _)
write_past_limit(tx, s) ==
    IF s = <<>> THEN [tx |-> tx, err |-> "Ok"]
    ELSE
      LET c == Head(s)
          col == tx.state.current_column
      IN
      IF c = NL
      THEN IF forbids_multi_line(tx.config)
           THEN [tx |-> tx, err |-> "MultiLine"]
           ELSE write_past_limit([tx EXCEPT !.state.current_column = 0,
                                            !.state.formatted_text = Append(@, c)],
                                 Tail(s))
      ELSE IF col > tx.config.max_columns /\ ~allows_too_long_line(tx.config)
           THEN [tx |-> tx, err |-> "LineTooLong"]
           ELSE LET indent == calc_indent(tx)
                    pad == IF c # SP /\ col < indent THEN indent - col ELSE 0
                IN  write_past_limit(
                        [tx EXCEPT
                           !.state.current_column = col + pad + 1,
                           !.state.formatted_text = @ \o Repeat(SP, pad) \o <<c>>],
                        Tail(s))

\* Transaction::write on one transaction: [tx, err].
RECURSIVE write(_, _)
write(tx, s) ==
    IF s = <<>> THEN [tx |-> tx, err |-> "Ok"]
    ELSE
      LET c == Head(s)
          col == tx.state.current_column
      IN
      IF c = NL
      THEN IF forbids_multi_line(tx.config)
           THEN [tx |-> tx, err |-> "MultiLine"]
           ELSE write([tx EXCEPT !.state.current_column = 0,
                                 !.state.formatted_text = Append(@, c)], Tail(s))
      ELSE IF col >= tx.config.max_columns /\ ~allows_too_long_line(tx.config)
           THEN [tx |-> tx, err |-> "LineTooLong"]
           ELSE LET indent == calc_indent(tx)
                    pad == IF c # SP /\ col < indent THEN indent - col ELSE 0
                IN  write([tx EXCEPT
                             !.state.current_column = col + pad + 1,
                             !.state.formatted_text = @ \o Repeat(SP, pad) \o <<c>>],
                          Tail(s))

write_whitespace(tx) ==
    LET taken == [tx EXCEPT !.state.needs_whitespace = "None"] IN
    CASE tx.state.needs_whitespace = "None" -> [tx |-> taken, err |-> "Ok"]
      [] tx.state.needs_whitespace = "Blank" -> write(taken, <<SP>>)
      [] tx.state.needs_whitespace = "Newline" -> write(taken, <<NL>>)

\* The result [writer, err] of an operation on the active transaction.
OnTop(w, r) == [writer |-> [w EXCEPT ![Len(w)] = r.tx], err |-> r.err]

write_item_tx(tx, txt, item) ==
    IF is_empty(item) THEN [tx |-> tx, err |-> "Ok"]
    ELSE
      LET start == Max(item.start.offset, tx.state.next_position.offset)
          end == Max(item.end.offset, start)
      IN
      IF start = end THEN [tx |-> tx, err |-> "Ok"]
      ELSE
        LET slice == SubSeq(txt, start + 1, end)
            r1 == write_whitespace(tx)
            r2 == IF r1.err # "Ok" THEN r1
                  ELSE IF r1.tx.state.next_position.line + 1 < item.start.line
                       THEN write(r1.tx, <<NL>>) ELSE r1
            r3 == IF r2.err # "Ok" THEN r2 ELSE write(r2.tx, slice)
        IN  IF r3.err # "Ok" THEN r3
            ELSE [tx |-> [r3.tx EXCEPT !.state.next_position = item.end], err |-> "Ok"]

write_item(w, txt, item) == OnTop(w, write_item_tx(Last(w), txt, item))

write_comment(w, txt, comment) ==
    LET tx == Last(w)
        r1 == IF tx.state.needs_whitespace = "Newline"
              THEN write_whitespace(tx) ELSE [tx |-> tx, err |-> "Ok"]
        lc == last_char([w EXCEPT ![Len(w)] = r1.tx])
        r2 == IF r1.err # "Ok" THEN r1
              ELSE IF r1.tx.state.next_position.line + 1 < comment.start.line
                   THEN write(r1.tx, <<NL>>)
                   ELSE IF lc # <<>> /\ lc # <<NL>> /\ lc # <<SP>>
                        THEN write(r1.tx, <<SP, SP>>) ELSE r1
        slice == SubSeq(txt, comment.start.offset + 1, comment.end.offset)
    IN  IF r2.err # "Ok" THEN OnTop(w, r2)
        ELSE LET tx3 == [r2.tx EXCEPT
                           !.state.formatted_text = @ \o slice,
                           !.state.current_column = @ + Len(slice),
                           !.state.next_position = comment.end]
             IN  [writer |-> needs_whitespace([w EXCEPT ![Len(w)] = tx3], "Newline"),
                  err |-> "Ok"]

(* RegionWriter: the calls ItemToString makes.                             *)

RegionWriter_new(max) == << Transaction_root(max) >>

start_subregion(w, cfg) == start_new_transaction(w, cfg)

commit_subregion(w) == commit(w)

abort_subregion(w) == abort(w)

parent_indent(w) == IF Len(w) >= 2 THEN w[Len(w) - 1].config.indent ELSE 0

\* A space or a newline is asked for, and written when the next token is.
write_space(w) == [writer |-> needs_whitespace(w, "Blank"), err |-> "Ok"]

write_newline(w) == [writer |-> needs_whitespace(w, "Newline"), err |-> "Ok"]

----------------------------------------------------------------------------
(* Region renderer (ItemToString).                                         *)

\* resolve_indent with ParentOffset reading config().indent where the code
\* reads parent_indent().
resolve_indent_offset_for_parent(w, indent) ==
    CASE indent.kind = "Inherit" -> config(w).indent
      [] indent.kind = "Offset" -> config(w).indent + indent.n
      [] indent.kind = "ParentOffset" -> config(w).indent + indent.n
      [] indent.kind = "CurrentColumn" ->
            IF current_column(w) = 0 THEN config(w).indent ELSE current_column(w)

\* resolve_indent with Inherit reading parent_indent() where the code reads
\* config().indent.
resolve_indent_from_parent(w, indent) ==
    CASE indent.kind = "Inherit" -> parent_indent(w)
      [] indent.kind = "Offset" -> config(w).indent + indent.n
      [] indent.kind = "ParentOffset" -> parent_indent(w) + indent.n
      [] indent.kind = "CurrentColumn" ->
            IF current_column(w) = 0 THEN config(w).indent ELSE current_column(w)

\* format_region: the indent of the region, from the active transaction.
resolve_indent(w, indent) ==
    CASE indent.kind = "Inherit" -> config(w).indent
      [] indent.kind = "Offset" -> config(w).indent + indent.n
      [] indent.kind = "ParentOffset" -> parent_indent(w) + indent.n
      [] indent.kind = "CurrentColumn" ->
            IF current_column(w) = 0 THEN config(w).indent ELSE current_column(w)

\* newline_flags without the arm of Newline::Always.
newline_flags_always_unset(w, newline) ==
    LET none == [needs_newline |-> FALSE, allow_multi_line |-> TRUE,
                 allow_too_long_line |-> TRUE, check_multi_line_parent |-> FALSE]
    IN
    CASE newline.kind = "Always" -> none
      [] newline.kind = "Never" -> none
      [] newline.kind = "If" ->
            LET cond == [none EXCEPT !.allow_multi_line = ~newline.multi_line,
                                     !.allow_too_long_line = ~newline.too_long]
            IN  IF newline.multi_line_parent
                THEN IF config(w).multi_line_mode
                     THEN [cond EXCEPT !.needs_newline = TRUE]
                     ELSE [cond EXCEPT !.check_multi_line_parent = TRUE,
                                       !.allow_multi_line = FALSE]
                ELSE cond

\* newline_flags without `allow_multi_line = false` next to
\* `check_multi_line_parent = true`.
newline_flags_check_allows(w, newline) ==
    LET none == [needs_newline |-> FALSE, allow_multi_line |-> TRUE,
                 allow_too_long_line |-> TRUE, check_multi_line_parent |-> FALSE]
    IN
    CASE newline.kind = "Always" -> [none EXCEPT !.needs_newline = TRUE]
      [] newline.kind = "Never" -> none
      [] newline.kind = "If" ->
            LET cond == [none EXCEPT !.allow_multi_line = ~newline.multi_line,
                                     !.allow_too_long_line = ~newline.too_long]
            IN  IF newline.multi_line_parent
                THEN IF config(w).multi_line_mode
                     THEN [cond EXCEPT !.needs_newline = TRUE]
                     ELSE [cond EXCEPT !.check_multi_line_parent = TRUE]
                ELSE cond

\* format_region: what the newline policy asks of the first attempt.
newline_flags(w, newline) ==
    LET none == [needs_newline |-> FALSE, allow_multi_line |-> TRUE,
                 allow_too_long_line |-> TRUE, check_multi_line_parent |-> FALSE]
    IN
    CASE newline.kind = "Always" -> [none EXCEPT !.needs_newline = TRUE]
      [] newline.kind = "Never" -> none
      [] newline.kind = "If" ->
            LET cond == [none EXCEPT !.allow_multi_line = ~newline.multi_line,
                                     !.allow_too_long_line = ~newline.too_long]
            IN  IF newline.multi_line_parent
                THEN IF config(w).multi_line_mode
                     THEN [cond EXCEPT !.needs_newline = TRUE]
                     ELSE [cond EXCEPT !.check_multi_line_parent = TRUE,
                                       !.allow_multi_line = FALSE]
                ELSE cond

\* with_subregion committing whatever f returned.
with_subregion_commits(w, result) == commit_subregion(w)

\* with_subregion that leaves the transaction on the stack when f failed.
with_subregion_no_abort(w, result) ==
    IF result = "Ok" THEN commit_subregion(w) ELSE w

\* with_subregion after f returned: commit on Ok, abort on Err.
with_subregion_end(w, result) ==
    IF result = "Ok" THEN commit_subregion(w) ELSE abort_subregion(w)

\* retry_decision entering multi-line mode on the region's own MultiLine or
\* LineTooLong as well.
retry_decision_always_mode(result, frame) ==
    LET no == [propagate |-> FALSE, retry |-> FALSE, needs_newline |-> FALSE,
               multi_line_mode |-> FALSE]
    IN
    CASE frame.check_multi_line_parent -> [no EXCEPT !.propagate = TRUE]
      [] ~frame.check_multi_line_parent /\ result = "MultiLine"
           /\ ~frame.allow_multi_line ->
            [no EXCEPT !.retry = TRUE, !.needs_newline = TRUE,
                       !.multi_line_mode = TRUE]
      [] ~frame.check_multi_line_parent /\ result = "LineTooLong"
           /\ ~frame.allow_too_long_line ->
            [no EXCEPT !.retry = TRUE, !.needs_newline = TRUE,
                       !.multi_line_mode = TRUE]
      [] ~frame.check_multi_line_parent /\ result = "MultiLineParent" ->
            [no EXCEPT !.retry = TRUE, !.needs_newline = frame.needs_newline,
                       !.multi_line_mode = TRUE]
      [] OTHER -> no

\* retry_decision retrying after MultiLineParent without multi-line mode.
retry_decision_never_mode(result, frame) ==
    LET no == [propagate |-> FALSE, retry |-> FALSE, needs_newline |-> FALSE,
               multi_line_mode |-> FALSE]
    IN
    CASE frame.check_multi_line_parent -> [no EXCEPT !.propagate = TRUE]
      [] ~frame.check_multi_line_parent /\ result = "MultiLine"
           /\ ~frame.allow_multi_line ->
            [no EXCEPT !.retry = TRUE, !.needs_newline = TRUE]
      [] ~frame.check_multi_line_parent /\ result = "LineTooLong"
           /\ ~frame.allow_too_long_line ->
            [no EXCEPT !.retry = TRUE, !.needs_newline = TRUE]
      [] ~frame.check_multi_line_parent /\ result = "MultiLineParent" ->
            [no EXCEPT !.retry = TRUE, !.needs_newline = frame.needs_newline]
      [] OTHER -> no

\* retry_decision with the arm `Err(_) if check_multi_line_parent` after the
\* arms of the region's own MultiLine and LineTooLong.
retry_decision_local_first(result, frame) ==
    LET no == [propagate |-> FALSE, retry |-> FALSE, needs_newline |-> FALSE,
               multi_line_mode |-> FALSE]
    IN
    CASE result = "MultiLine" /\ ~frame.allow_multi_line ->
            [no EXCEPT !.retry = TRUE, !.needs_newline = TRUE]
      [] result = "LineTooLong" /\ ~frame.allow_too_long_line ->
            [no EXCEPT !.retry = TRUE, !.needs_newline = TRUE]
      [] result = "MultiLineParent" /\ frame.check_multi_line_parent ->
            [no EXCEPT !.propagate = TRUE]
      [] result = "MultiLineParent" /\ ~frame.check_multi_line_parent ->
            [no EXCEPT !.retry = TRUE, !.needs_newline = frame.needs_newline,
                       !.multi_line_mode = TRUE]
      [] OTHER -> [no EXCEPT !.propagate = frame.check_multi_line_parent]

\* format_region's match on the failed first attempt.  propagate is the case
\* `Err(_) if check_multi_line_parent`.
retry_decision(result, frame) ==
    LET no == [propagate |-> FALSE, retry |-> FALSE, needs_newline |-> FALSE,
               multi_line_mode |-> FALSE]
    IN
    CASE frame.check_multi_line_parent -> [no EXCEPT !.propagate = TRUE]
      [] ~frame.check_multi_line_parent /\ result = "MultiLine"
           /\ ~frame.allow_multi_line ->
            [no EXCEPT !.retry = TRUE, !.needs_newline = TRUE]
      [] ~frame.check_multi_line_parent /\ result = "LineTooLong"
           /\ ~frame.allow_too_long_line
           /\ ~(result = "MultiLine" /\ ~frame.allow_multi_line) ->
            [no EXCEPT !.retry = TRUE, !.needs_newline = TRUE]
      [] ~frame.check_multi_line_parent /\ result = "MultiLineParent" ->
            [no EXCEPT !.retry = TRUE, !.needs_newline = frame.needs_newline,
                       !.multi_line_mode = TRUE]
      [] OTHER -> no

\* format_region handling the retry's failure as it handles the first one.
handles_any_failure(frame) == TRUE

\* `if result.is_err()` is evaluated on the result of the first attempt only:
\* the retry's result is returned as it is.
handles_failure(frame) == frame.attempt = 1

\* format_region up to the first item of the body: the frame of the call and
\* the writer with the first attempt's transaction started.
format_region_begin(max, w, region) ==
    LET indent == resolve_indent(w, region.indent)
        flags == newline_flags(w, region.newline)
        cfg == RegionConfig(max, indent, flags.allow_multi_line,
                            flags.allow_too_long_line, FALSE)
        w1 == start_subregion(w, cfg)
        r == IF flags.needs_newline THEN write_newline(w1)
             ELSE [writer |-> w1, err |-> "Ok"]
    IN  [writer |-> r.writer,
         err    |-> r.err,
         frame  |-> [policy |-> region.indent, newline |-> region.newline,
                     items |-> region.items, i |-> 1, indent |-> indent,
                     needs_newline |-> flags.needs_newline,
                     allow_multi_line |-> flags.allow_multi_line,
                     allow_too_long_line |-> flags.allow_too_long_line,
                     check_multi_line_parent |-> flags.check_multi_line_parent,
                     attempt |-> 1,
                     retry_needs_newline |-> FALSE,
                     retry_multi_line_mode |-> FALSE,
                     entry |-> Last(w).state,
                     depth |-> Len(w)]]

\* format_region_retry_begin without the comparison of the indent with the
\* column before the newline.
format_region_retry_begin_unguarded(w, frame, d) ==
    LET cfg == RegionConfig(max_columns, frame.indent, TRUE, TRUE, d.multi_line_mode)
        w1 == start_subregion(w, cfg)
    IN  IF d.needs_newline
        THEN write_newline(w1)
        ELSE [writer |-> w1, err |-> "Ok"]

\* format_region from `if retry` to the first item of the body.
format_region_retry_begin(w, frame, d) ==
    LET cfg == RegionConfig(max_columns, frame.indent, TRUE, TRUE, d.multi_line_mode)
        w1 == start_subregion(w, cfg)
    IN  IF d.needs_newline /\ frame.indent < current_column(w1)
        THEN write_newline(w1)
        ELSE [writer |-> w1, err |-> "Ok"]

format_token(w, token) == write_item(w, text, token)

format_comment(w, comment) == write_comment(w, text, comment)

format_space(w, n) == write_space(w)

format_newline(w, n) == write_newline(w)

NoReturn ==
    [result |-> "None", attempt |-> 0, entry |-> Transaction_root(0).state,
     exit |-> Transaction_root(0).state, body |-> <<>>]

----------------------------------------------------------------------------
(* Specification.                                                          *)

RegionPolicies ==
    { <<Inherit, if_too_long_or_multi_line_parent>>,
      <<Offset(2), if_too_long_or_multi_line>>,
      <<ParentOffset(1), Never>> }

\* The grammar items at the root of a delimited sequence.  "Body" is a
\* bracketed NonEmptyItems whose owner calls format_multi_line.
SequenceKinds == {"TupleLike", "Args", "Body"}

Init ==
    /\ pc = "build"
    /\ \/ \E src \in Sources :
            LET lexed == Lex(src, 1, <<>>, FirstLine, <<>>) IN
            /\ text = lexed.text
            /\ tokens = SelectSeq(lexed.spans, IsToken)
            /\ comments = SelectSeq(lexed.spans, IsComment)
            /\ root = [kind |-> "Any"]
       \/ \E kind \in SequenceKinds, elems \in SeqsUpTo(ElemKinds, MaxElems) :
            LET lexed == Lex(SequenceLexemes(elems, 1), 1, <<>>, FirstLine, <<>>) IN
            /\ text = lexed.text
            /\ tokens = lexed.spans
            /\ comments = <<>>
            /\ root = [kind |-> kind] @@ ParseSequence(elems, lexed.spans)
    /\ fmt = Formatter2_new
    /\ parents = <<>>
    /\ built = [calls |-> 0, tokens |-> 0]
    /\ tree = Item_new
    /\ max_columns = 0
    /\ writer = <<>>
    /\ frames = <<>>
    /\ err = "Ok"
    /\ ret = NoReturn
    /\ pass = 1
    /\ out1 = <<>>

sourceVars == <<text, tokens, comments, root>>
renderVars == <<tree, max_columns, writer, frames, err, ret, pass, out1>>

IsAny == root.kind = "Any"

add_token ==
    /\ pc = "build"
    /\ IsAny
    /\ built.calls < MaxCalls
    /\ built.tokens < Len(tokens)
    /\ LET token == tokens[built.tokens + 1]
           f == add_token_body(fmt, token)
       IN  IF f.next_position.offset <= token.end.offset
           THEN /\ fmt' = [f EXCEPT !.next_position = token.end]
                /\ pc' = pc
           ELSE /\ fmt' = f
                /\ pc' = "panic"
    /\ built' = [built EXCEPT !.calls = @ + 1, !.tokens = @ + 1]
    /\ UNCHANGED <<sourceVars, parents, renderVars>>

add_space_call ==
    /\ pc = "build"
    /\ IsAny
    /\ built.calls < MaxCalls
    /\ fmt' = add_space(fmt)
    /\ built' = [built EXCEPT !.calls = @ + 1]
    /\ UNCHANGED <<pc, sourceVars, parents, renderVars>>

\* Formatter2::add_spaces, the public call that takes the count.
add_spaces_call ==
    /\ pc = "build"
    /\ IsAny
    /\ built.calls < MaxCalls
    /\ \E n \in SpaceCounts : fmt' = add_spaces(fmt, n)
    /\ built' = [built EXCEPT !.calls = @ + 1]
    /\ UNCHANGED <<pc, sourceVars, parents, renderVars>>

add_newline_call ==
    /\ pc = "build"
    /\ IsAny
    /\ built.calls < MaxCalls
    /\ fmt' = add_newline(fmt)
    /\ built' = [built EXCEPT !.calls = @ + 1]
    /\ UNCHANGED <<pc, sourceVars, parents, renderVars>>

\* Formatter2::subregion up to the call of f.
subregion_enter ==
    /\ pc = "build"
    /\ IsAny
    /\ built.calls < MaxCalls
    /\ \E p \in RegionPolicies :
         /\ parents' = Append(parents, fmt.item)
         /\ fmt' = subregion_begin(fmt, p[1], p[2])
    /\ built' = [built EXCEPT !.calls = @ + 1]
    /\ UNCHANGED <<pc, sourceVars, renderVars>>

\* Formatter2::subregion after f returned.
subregion_exit ==
    /\ pc = "build"
    /\ parents # <<>>
    /\ fmt' = subregion_end([item |-> Last(parents)], fmt)
    /\ parents' = Front(parents)
    /\ UNCHANGED <<pc, sourceVars, built, renderVars>>

\* The format method of the root item of a delimited sequence.
sequence_format ==
    /\ pc = "build"
    /\ ~IsAny
    /\ built.tokens = 0
    /\ fmt' = CASE root.kind = "TupleLike" -> TupleLike_format(fmt, root)
                [] root.kind = "Args" -> Args_format(fmt, root)
                [] root.kind = "Body" -> Body_format(fmt, root)
    /\ built' = [built EXCEPT !.tokens = Len(tokens)]
    /\ UNCHANGED <<pc, sourceVars, parents, renderVars>>

\* Formatter2::format and ItemToString::to_string up to the root region's body.
\* The grammar item has emitted every token it holds.
format ==
    /\ pc = "build"
    /\ parents = <<>>
    /\ built.tokens = Len(tokens)
    /\ \E max \in Widths :
         LET b == format_region_begin(max, RegionWriter_new(max), fmt.item) IN
         /\ max_columns' = max
         /\ writer' = b.writer
         /\ frames' = <<b.frame>>
         /\ err' = b.err
    /\ tree' = fmt.item
    /\ fmt' = [fmt EXCEPT !.item = Item_new]
    /\ pc' = "render"
    /\ UNCHANGED <<sourceVars, parents, built, ret, pass, out1>>

Top == Last(frames)
AtItem == err = "Ok" /\ Top.i <= Len(Top.items)
Item == Top.items[Top.i]

\* format_item on a token, a comment, a space or a newline.
format_leaf ==
    /\ pc = "render"
    /\ AtItem
    /\ Item.type # "Region"
    /\ IF Item.type \in {"Space", "Newline"} /\ Item.n # 1
       THEN /\ pc' = "panic"
            /\ UNCHANGED <<writer, frames, err>>
       ELSE LET r == CASE Item.type = "Token" -> format_token(writer, Item)
                       [] Item.type = "Comment" -> format_comment(writer, Item)
                       [] Item.type = "Space" -> format_space(writer, Item.n)
                       [] Item.type = "Newline" -> format_newline(writer, Item.n)
            IN  /\ writer' = r.writer
                /\ err' = r.err
                /\ frames' = IF r.err = "Ok"
                             THEN [frames EXCEPT ![Len(frames)].i = @ + 1]
                             ELSE frames
                /\ pc' = pc
    /\ UNCHANGED <<sourceVars, fmt, parents, built, tree, max_columns, ret, pass, out1>>

\* format_item on a region: format_region up to the body of the first attempt.
format_region_enter ==
    /\ pc = "render"
    /\ AtItem
    /\ Item.type = "Region"
    /\ LET b == format_region_begin(max_columns, writer, Item) IN
       /\ writer' = b.writer
       /\ frames' = Append(frames, b.frame)
       /\ err' = b.err
    /\ UNCHANGED <<pc, sourceVars, fmt, parents, built, tree, max_columns, ret, pass, out1>>

\* The body ended without an error: with_subregion commits and format_region
\* returns Ok; the root's return ends to_string.
format_region_ok ==
    /\ pc = "render"
    /\ err = "Ok"
    /\ Top.i > Len(Top.items)
    /\ writer' = with_subregion_end(writer, "Ok")
    /\ ret' = [result |-> "Ok", attempt |-> Top.attempt, entry |-> Top.entry,
               exit |-> Last(writer').state, body |-> Last(writer).state.formatted_text]
    /\ IF Len(frames) = 1
       THEN /\ frames' = <<>>
            /\ pc' = "done"
       ELSE /\ frames' = [Front(frames) EXCEPT ![Len(frames) - 1].i = @ + 1]
            /\ pc' = pc
    /\ UNCHANGED <<sourceVars, fmt, parents, built, tree, max_columns, err, pass, out1>>

\* The first attempt failed and the match asks for a retry: with_subregion
\* aborts, and the body starts again in a new transaction.
format_region_retry ==
    /\ pc = "render"
    /\ err # "Ok"
    /\ handles_failure(Top)
    /\ retry_decision(err, Top).retry
    /\ LET r == format_region_retry_begin(with_subregion_end(writer, err), Top,
                                          retry_decision(err, Top))
       IN  /\ writer' = r.writer
           /\ err' = r.err
    /\ frames' = [frames EXCEPT
                     ![Len(frames)].i = 1,
                     ![Len(frames)].attempt = @ + 1,
                     ![Len(frames)].retry_needs_newline =
                         retry_decision(err, Top).needs_newline,
                     ![Len(frames)].retry_multi_line_mode =
                         retry_decision(err, Top).multi_line_mode]
    /\ UNCHANGED <<pc, sourceVars, fmt, parents, built, tree, max_columns, ret, pass, out1>>

\* The attempt failed and there is no retry: with_subregion aborts and
\* format_region returns the error; at the root, to_string's expect panics.
format_region_err ==
    /\ pc = "render"
    /\ err # "Ok"
    /\ ~(handles_failure(Top) /\ retry_decision(err, Top).retry)
    /\ writer' = with_subregion_end(writer, err)
    /\ err' = IF handles_failure(Top) /\ retry_decision(err, Top).propagate
              THEN "MultiLineParent" ELSE err
    /\ ret' = [result |-> err', attempt |-> Top.attempt, entry |-> Top.entry,
               exit |-> Last(writer').state, body |-> Last(writer).state.formatted_text]
    /\ frames' = Front(frames)
    /\ pc' = IF Len(frames) = 1 THEN "panic" ELSE pc
    /\ UNCHANGED <<sourceVars, fmt, parents, built, tree, max_columns, pass, out1>>

Next ==
    \/ add_token
    \/ add_space_call
    \/ add_newline_call
    \/ subregion_enter
    \/ subregion_exit
    \/ sequence_format
    \/ format
    \/ format_leaf
    \/ format_region_enter
    \/ format_region_ok
    \/ format_region_retry
    \/ format_region_err

Spec == Init /\ [][Next]_vars

\* The builder with its whole public interface: the grammar items under
\* src/ call add_space and add_newline only, add_spaces is open to any caller.
NextSpaces == Next \/ add_spaces_call

SpecSpaces == Init /\ [][NextSpaces]_vars

----------------------------------------------------------------------------
(* Formatting the output again.  The output is parsed as the source was:   *)
(* the same tokens and the comments that were written, at the positions    *)
(* they have in the output, and the grammar item makes the same builder    *)
(* calls, so the tree is the first tree with its leaves moved.             *)

Output == formatted_text(writer)

LinesBefore(out, idx) == Cardinality({ j \in 1..idx : out[j] = NL })

Written(out, span) == \E i \in 1..Len(out) : out[i] = text[span.start.offset + 1]

Moved(out, span) ==
    LET idx == CHOOSE i \in 1..Len(out) : out[i] = text[span.start.offset + 1]
        line == FirstLine + LinesBefore(out, idx)
        len == span.end.offset - span.start.offset
    IN  [span EXCEPT !.start = Position_new(line, idx - 1),
                     !.end = Position_new(line, idx - 1 + len)]

MovedAll(out, spans) ==
    LET kept == SelectSeq(spans, LAMBDA x : Written(out, x))
    IN  [k \in 1..Len(kept) |-> Moved(out, kept[k])]

RECURSIVE Item_moved(_, _)
Item_moved(out, it) ==
    IF it.type = "Region"
    THEN [it EXCEPT !.items = [k \in 1..Len(it.items) |-> Item_moved(out, it.items[k])]]
    ELSE IF it.type \in {"Token", "Comment"} THEN Moved(out, it)
    ELSE it

\* efmt run on its own output: parse, build, format at the same width.
reformat ==
    /\ pc = "done"
    /\ pass = 1
    /\ pass' = 2
    /\ out1' = Output
    /\ text' = Output
    /\ tokens' = MovedAll(Output, tokens)
    /\ comments' = MovedAll(Output, comments)
    /\ tree' = Item_moved(Output, tree)
    /\ LET b == format_region_begin(max_columns, RegionWriter_new(max_columns),
                                     Item_moved(Output, tree)) IN
       /\ writer' = b.writer
       /\ frames' = <<b.frame>>
       /\ err' = b.err
    /\ ret' = NoReturn
    /\ pc' = "render"
    /\ UNCHANGED <<root, fmt, parents, built, max_columns>>

NextTwice == Next \/ reformat

SpecTwice == Init /\ [][NextTwice]_vars

----------------------------------------------------------------------------
(* Transaction as format/transaction.rs has it: a TransactionConfig with   *)
(* an IndentMode and a MultilineMode, and the indent that calc_indent      *)
(* caches in the state. The stack has the root first and the active        *)
(* transaction last; Option<usize> is <<>> for None and <<i>> for Some(i). *)

MaxOps == 4          \* calls made on the Transaction

IndentMode_CurrentIndent == [kind |-> "CurrentIndent", n |-> 0]
IndentMode_Offset(n) == [kind |-> "Offset", n |-> n]
IndentMode_CurrentColumn == [kind |-> "CurrentColumn", n |-> 0]

IndentModes == { IndentMode_CurrentIndent, IndentMode_Offset(2), IndentMode_CurrentColumn }

MultilineModes == { "Forbid", "Allow", "Recommend" }

TransactionConfig(indent, max, multiline_mode) ==
    [indent |-> indent, max_columns |-> max, multiline_mode |-> multiline_mode]

\* IndentMode::default(): the root has no parent, its indent is 0.
IndentMode_default == IndentMode_CurrentIndent

TransactionConfig_root(max) == TransactionConfig(IndentMode_default, max, "Allow")

TransactionConfigs(max) ==
    { TransactionConfig(i, max, m) : i \in IndentModes, m \in MultilineModes }

Tx_root(max) ==
    [config |-> TransactionConfig_root(max),
     state  |-> [next_position |-> Position_new(0, 0), current_column |-> 0,
                 needs_whitespace |-> "None", formatted_text |-> <<>>,
                 indent |-> <<>>]]

Tx_clone_for_new_transaction(state) ==
    [state EXCEPT !.formatted_text = <<>>, !.indent = <<>>]

Tx_start_new_transaction(w, cfg) ==
    Append(w, [config |-> cfg, state |-> Tx_clone_for_new_transaction(Last(w).state)])

\* calc_indent of the k-th transaction: [writer, indent]; the indent is
\* cached in the k-th state and in each state below it that is asked.
RECURSIVE Tx_calc_indent(_, _)
Tx_calc_indent(w, k) ==
    IF w[k].state.indent # <<>>
    THEN [writer |-> w, indent |-> w[k].state.indent[1]]
    ELSE LET p == IF k > 1 THEN Tx_calc_indent(w, k - 1)
                  ELSE [writer |-> w, indent |-> 0]
             mode == w[k].config.indent
             column == w[k].state.current_column
                       + IF w[k].state.needs_whitespace = "Blank" THEN 1 ELSE 0
             indent == CASE mode.kind = "CurrentIndent" -> p.indent
                         [] mode.kind = "Offset" -> p.indent + mode.n
                         [] mode.kind = "CurrentColumn" -> Max(p.indent, column)
         IN  [writer |-> [p.writer EXCEPT ![k].state.indent = <<indent>>],
              indent |-> indent]

\* Transaction::write without `if c != ' '` around the padding.
RECURSIVE Tx_write_pads_spaces(_, _)
Tx_write_pads_spaces(w, s) ==
    IF s = <<>> THEN [writer |-> w, err |-> "Ok"]
    ELSE
      LET c == Head(s)
          n == Len(w)
          col == w[n].state.current_column
      IN
      IF c = NL
      THEN IF w[n].config.multiline_mode = "Forbid"
           THEN [writer |-> w, err |-> "Multiline"]
           ELSE Tx_write_pads_spaces(
                    [w EXCEPT ![n].state.current_column = 0,
                              ![n].state.formatted_text = Append(@, c)], Tail(s))
      ELSE IF col >= w[n].config.max_columns /\ w[n].config.multiline_mode # "Recommend"
           THEN [writer |-> w, err |-> "MaxColumnsExceeded"]
           ELSE LET r == Tx_calc_indent(w, n)
                    pad == IF col < r.indent THEN r.indent - col ELSE 0
                IN  Tx_write_pads_spaces(
                        [r.writer EXCEPT
                           ![n].state.current_column = col + pad + 1,
                           ![n].state.formatted_text = @ \o Repeat(SP, pad) \o <<c>>],
                        Tail(s))

\* Transaction::write with the newline pushed before the Forbid check.
RECURSIVE Tx_write_newline_pushed_first(_, _)
Tx_write_newline_pushed_first(w, s) ==
    IF s = <<>> THEN [writer |-> w, err |-> "Ok"]
    ELSE
      LET c == Head(s)
          n == Len(w)
          col == w[n].state.current_column
      IN
      IF c = NL
      THEN LET pushed == [w EXCEPT ![n].state.formatted_text = Append(@, c)] IN
           IF w[n].config.multiline_mode = "Forbid"
           THEN [writer |-> pushed, err |-> "Multiline"]
           ELSE Tx_write_newline_pushed_first(
                    [pushed EXCEPT ![n].state.current_column = 0], Tail(s))
      ELSE IF col >= w[n].config.max_columns /\ w[n].config.multiline_mode # "Recommend"
           THEN [writer |-> w, err |-> "MaxColumnsExceeded"]
           ELSE LET r == IF c # SP THEN Tx_calc_indent(w, n)
                         ELSE [writer |-> w, indent |-> 0]
                    pad == IF col < r.indent THEN r.indent - col ELSE 0
                IN  Tx_write_newline_pushed_first(
                        [r.writer EXCEPT
                           ![n].state.current_column = col + pad + 1,
                           ![n].state.formatted_text = @ \o Repeat(SP, pad) \o <<c>>],
                        Tail(s))

\* Transaction::write with `== Forbid` where the code has `!= Recommend` in the
\* column check.
RECURSIVE Tx_write_long_unless_forbidden(_, _)
Tx_write_long_unless_forbidden(w, s) ==
    IF s = <<>> THEN [writer |-> w, err |-> "Ok"]
    ELSE
      LET c == Head(s)
          n == Len(w)
          col == w[n].state.current_column
      IN
      IF c = NL
      THEN IF w[n].config.multiline_mode = "Forbid"
           THEN [writer |-> w, err |-> "Multiline"]
           ELSE Tx_write_long_unless_forbidden(
                    [w EXCEPT ![n].state.current_column = 0,
                              ![n].state.formatted_text = Append(@, c)], Tail(s))
      ELSE IF col >= w[n].config.max_columns /\ w[n].config.multiline_mode = "Forbid"
           THEN [writer |-> w, err |-> "MaxColumnsExceeded"]
           ELSE LET r == IF c # SP THEN Tx_calc_indent(w, n)
                         ELSE [writer |-> w, indent |-> 0]
                    pad == IF col < r.indent THEN r.indent - col ELSE 0
                IN  Tx_write_long_unless_forbidden(
                        [r.writer EXCEPT
                           ![n].state.current_column = col + pad + 1,
                           ![n].state.formatted_text = @ \o Repeat(SP, pad) \o <<c>>],
                        Tail(s))

\* Transaction::write: [writer, err]; on failure the writer is as the
\* characters before the failing one left it.
RECURSIVE Tx_write(_, _)
Tx_write(w, s) ==
    IF s = <<>> THEN [writer |-> w, err |-> "Ok"]
    ELSE
      LET c == Head(s)
          n == Len(w)
          col == w[n].state.current_column
      IN
      IF c = NL
      THEN IF w[n].config.multiline_mode = "Forbid"
           THEN [writer |-> w, err |-> "Multiline"]
           ELSE Tx_write([w EXCEPT ![n].state.current_column = 0,
                                   ![n].state.formatted_text = Append(@, c)], Tail(s))
      ELSE IF col >= w[n].config.max_columns /\ w[n].config.multiline_mode # "Recommend"
           THEN [writer |-> w, err |-> "MaxColumnsExceeded"]
           ELSE LET r == IF c # SP THEN Tx_calc_indent(w, n)
                         ELSE [writer |-> w, indent |-> 0]
                    pad == IF col < r.indent THEN r.indent - col ELSE 0
                IN  Tx_write([r.writer EXCEPT
                                ![n].state.current_column = col + pad + 1,
                                ![n].state.formatted_text = @ \o Repeat(SP, pad) \o <<c>>],
                             Tail(s))

Tx_write_whitespace(w) ==
    LET taken == [w EXCEPT ![Len(w)].state.needs_whitespace = "None"] IN
    CASE Last(w).state.needs_whitespace = "None" -> [writer |-> taken, err |-> "Ok"]
      [] Last(w).state.needs_whitespace = "Blank" -> Tx_write(taken, <<SP>>)
      [] Last(w).state.needs_whitespace = "Newline" -> Tx_write(taken, <<NL>>)

\* write_item starting at the item's start, without the max with
\* next_position.
Tx_write_item_from_item_start(w, txt, item) ==
    IF is_empty(item) THEN [writer |-> w, err |-> "Ok"]
    ELSE
      LET start == item.start.offset
          end == Max(item.end.offset, start)
      IN
      IF start = end THEN [writer |-> w, err |-> "Ok"]
      ELSE
        LET slice == SubSeq(txt, start + 1, end)
            r1 == Tx_write_whitespace(w)
            r2 == IF r1.err # "Ok" THEN r1
                  ELSE IF next_position(r1.writer).line + 1 < item.start.line
                       THEN Tx_write(r1.writer, <<NL>>) ELSE r1
            r3 == IF r2.err # "Ok" THEN r2 ELSE Tx_write(r2.writer, slice)
        IN  IF r3.err # "Ok" THEN r3
            ELSE [writer |-> [r3.writer EXCEPT ![Len(w)].state.next_position = item.end],
                  err |-> "Ok"]

Tx_write_item(w, txt, item) ==
    IF is_empty(item) THEN [writer |-> w, err |-> "Ok"]
    ELSE
      LET start == Max(item.start.offset, next_position(w).offset)
          end == Max(item.end.offset, start)
      IN
      IF start = end THEN [writer |-> w, err |-> "Ok"]
      ELSE
        LET slice == SubSeq(txt, start + 1, end)
            r1 == Tx_write_whitespace(w)
            r2 == IF r1.err # "Ok" THEN r1
                  ELSE IF next_position(r1.writer).line + 1 < item.start.line
                       THEN Tx_write(r1.writer, <<NL>>) ELSE r1
            r3 == IF r2.err # "Ok" THEN r2 ELSE Tx_write(r2.writer, slice)
        IN  IF r3.err # "Ok" THEN r3
            ELSE [writer |-> [r3.writer EXCEPT ![Len(w)].state.next_position = item.end],
                  err |-> "Ok"]

\* write_comment without its last statement, needs_whitespace(Newline).
Tx_write_comment_no_newline(w, txt, comment) ==
    LET r1 == IF Last(w).state.needs_whitespace = "Newline"
              THEN Tx_write_whitespace(w) ELSE [writer |-> w, err |-> "Ok"]
        lc == last_char(r1.writer)
        r2 == IF r1.err # "Ok" THEN r1
              ELSE IF next_position(r1.writer).line + 1 < comment.start.line
                   THEN Tx_write(r1.writer, <<NL>>)
                   ELSE IF lc # <<>> /\ lc # <<NL>> /\ lc # <<SP>>
                        THEN Tx_write(r1.writer, <<SP, SP>>) ELSE r1
        slice == SubSeq(txt, comment.start.offset + 1, comment.end.offset)
    IN  IF r2.err # "Ok" THEN r2
        ELSE [writer |-> [r2.writer EXCEPT
                            ![Len(w)].state.formatted_text = @ \o slice,
                            ![Len(w)].state.current_column = @ + Len(slice),
                            ![Len(w)].state.next_position = comment.end],
              err |-> "Ok"]

Tx_write_comment(w, txt, comment) ==
    LET r1 == IF Last(w).state.needs_whitespace = "Newline"
              THEN Tx_write_whitespace(w) ELSE [writer |-> w, err |-> "Ok"]
        lc == last_char(r1.writer)
        r2 == IF r1.err # "Ok" THEN r1
              ELSE IF next_position(r1.writer).line + 1 < comment.start.line
                   THEN Tx_write(r1.writer, <<NL>>)
                   ELSE IF lc # <<>> /\ lc # <<NL>> /\ lc # <<SP>>
                        THEN Tx_write(r1.writer, <<SP, SP>>) ELSE r1
        slice == SubSeq(txt, comment.start.offset + 1, comment.end.offset)
    IN  IF r2.err # "Ok" THEN r2
        ELSE LET w3 == [r2.writer EXCEPT
                          ![Len(w)].state.formatted_text = @ \o slice,
                          ![Len(w)].state.current_column = @ + Len(slice),
                          ![Len(w)].state.next_position = comment.end]
             IN  [writer |-> needs_whitespace(w3, "Newline"), err |-> "Ok"]

(* The Transaction driven call by call: any sequence of at most MaxOps     *)
(* calls of its public methods on a source that has been tokenized.        *)

\* The sources the calls are made on: two lexemes, of every kind.
TxSources ==
    { src \in Sources : Len(src) = 2 }
      \cup { << Alnum(2), Utf8Comment >>, << Utf8Comment, Alnum(2) >> }

InitTx ==
    /\ pc = "tx"
    /\ \E src \in TxSources :
            LET lexed == Lex(src, 1, <<>>, FirstLine, <<>>) IN
            /\ text = lexed.text
            /\ tokens = SelectSeq(lexed.spans, IsToken)
            /\ comments = SelectSeq(lexed.spans, IsComment)
    /\ root = [kind |-> "Any"]
    /\ fmt = Formatter2_new
    /\ parents = <<>>
    /\ built = [calls |-> 0, tokens |-> 0]
    /\ tree = Item_new
    /\ max_columns \in Widths
    /\ writer = << Tx_root(max_columns) >>
    /\ frames = <<>>
    /\ err = "Ok"
    /\ ret = NoReturn
    /\ pass = 1
    /\ out1 = <<>>

txFixed == <<text, tokens, comments, root, fmt, parents, tree, max_columns,
             frames, ret, pass, out1>>

\* One more call. A call that returned Err is answered by abort, as `?` and
\* with_subregion answer it (format2.rs 275-287), never by another write.
Called ==
    /\ pc = "tx"
    /\ built.calls < MaxOps
    /\ built' = [built EXCEPT !.calls = @ + 1]
    /\ UNCHANGED <<pc, txFixed>>

Returned == err = "Ok"

call_start_new_transaction ==
    /\ Called
    /\ Returned
    /\ \E cfg \in TransactionConfigs(max_columns) :
            writer' = Tx_start_new_transaction(writer, cfg)
    /\ err' = "Ok"

call_commit ==
    /\ Called
    /\ Returned
    /\ Len(writer) >= 2
    /\ writer' = commit(writer)
    /\ err' = "Ok"

call_abort ==
    /\ Called
    /\ Len(writer) >= 2
    /\ writer' = abort(writer)
    /\ err' = "Ok"

call_needs_whitespace ==
    /\ Called
    /\ Returned
    /\ \E whitespace \in {"Blank", "Newline"} :
            writer' = needs_whitespace(writer, whitespace)
    /\ err' = "Ok"

\* The items write_item is called with: the tokens, an item without text
\* (a macro call that expands to nothing), and an item that spans the tokens
\* (a macro call whose arguments they are).
TxItems ==
    { tokens[i] : i \in 1..Len(tokens) }
    \cup { [type |-> "Token", kind |-> "macro",
            start |-> tokens[i].start, end |-> tokens[i].start] : i \in 1..Len(tokens) }
    \cup { [type |-> "Token", kind |-> "macro",
            start |-> tokens[1].start, end |-> tokens[i].end] : i \in 2..Len(tokens) }

call_write_item ==
    /\ Called
    /\ Returned
    /\ \E item \in TxItems :
            LET r == Tx_write_item(writer, text, item) IN
            /\ writer' = r.writer
            /\ err' = r.err

call_write_comment ==
    /\ Called
    /\ Returned
    /\ \E i \in 1..Len(comments) :
            LET r == Tx_write_comment(writer, text, comments[i]) IN
            /\ writer' = r.writer
            /\ err' = r.err

NextTx ==
    \/ call_start_new_transaction
    \/ call_commit
    \/ call_abort
    \/ call_needs_whitespace
    \/ call_write_item
    \/ call_write_comment

SpecTx == InitTx /\ [][NextTx]_vars

----------------------------------------------------------------------------
(* Properties.                                                             *)

Slice(span) == SubSeq(text, span.start.offset + 1, span.end.offset)

RECURSIVE Concat(_)
Concat(spans) == IF spans = <<>> THEN <<>> ELSE Slice(Head(spans)) \o Concat(Tail(spans))

Chars(s) == { s[i] : i \in 1..Len(s) }

CommentChars == Chars(Concat(comments))

IsBlank(c) == c = NL \/ c = SP

\* The lexeme of the source a character of the output comes from.
LexemeOf(c) ==
    LET all == tokens \o comments
    IN  CHOOSE k \in 1..Len(all) : c \in Chars(Slice(all[k]))

\* The index of the line break before index i of out, 0 on the first line.
LineStart(out, i) ==
    LET breaks == { j \in 1..(i - 1) : out[j] = NL }
    IN  IF breaks = {} THEN 0 ELSE CHOOSE j \in breaks : \A k \in breaks : k <= j

SameLine(out, i, j) == LineStart(out, i) = LineStart(out, j)

\* out[i] is a character at a column >= max_columns.
BeyondLimit(out, i) == out[i] # NL /\ i - LineStart(out, i) > max_columns

Rendering == pc = "render" /\ frames # <<>>

InheritOrOffset(frame) == frame.policy.kind \in {"Inherit", "Offset"}

\* The tokens and comments of a tree, in the order they were added.
RECURSIVE Leaves(_)
RECURSIVE LeavesOf(_)
Leaves(it) ==
    IF it.type = "Region" THEN LeavesOf(it.items)
    ELSE IF it.type \in {"Token", "Comment"} THEN <<it>>
    ELSE <<>>
LeavesOf(items) ==
    IF items = <<>> THEN <<>> ELSE Leaves(Head(items)) \o LeavesOf(Tail(items))

(* C1: when formatting ends, the output with its spaces and newlines       *)
(* removed is the concatenation of the source slices of the tokens (and of *)
(* the comments the builder added as tokens) in the order they were added, *)
(* which for the tokens is the source order: each slice verbatim, once,    *)
(* whatever commits, aborts and retries happened on the way.               *)
C1_ContentPreserved ==
    pc = "done" =>
        /\ SelectSeq(Output, LAMBDA c : ~IsBlank(c)) = Concat(Leaves(tree))
        /\ SelectSeq(Leaves(tree), IsToken) = tokens

\* C1 witness: two or more tokens formatted, the root region after a retry.
C1_Witness == pc = "done" /\ Len(tokens) >= 2 /\ ret.attempt = 2

(* C2: rendering never fails, whatever tree the builder produced: no error *)
(* reaches the root, where to_string's expect would panic.                 *)
C2_RenderingNeverFails == ~(pc = "panic" /\ err # "Ok")

C4_Idempotent == (pc = "done" /\ pass = 2) => Output = out1

(* C5: every comment of the comment table is in the output exactly once,   *)
(* in ascending order of start position, those after the last token        *)
(* included.                                                               *)
C5_CommentsPreserved ==
    pc = "done" =>
        SelectSeq(Output, LAMBDA c : c \in CommentChars) = Concat(comments)

(* C6: an aborted attempt is never observed: when format_region returns    *)
(* Err the writer is as it was at entry, and when it returns Ok after a    *)
(* retry the text added since entry is the text of the retry alone.        *)
C6_AbortedAttemptUnobserved ==
    /\ ret.result \notin {"None", "Ok"} => ret.exit = ret.entry
    /\ (ret.result = "Ok" /\ ret.attempt = 2) =>
           ret.exit.formatted_text = ret.entry.formatted_text \o ret.body

\* C6 witness: format_region has returned Err after an attempt that had
\* written text.
C6_Witness == ret.result \notin {"None", "Ok"} /\ ret.body # <<>>

(* C7: a region is retried at most once per entry: no activation of        *)
(* format_region runs a third attempt, a failed retry propagates.          *)
C7_AtMostOneRetry == \A k \in 1..Len(frames) : frames[k].attempt <= 2

\* C7 witness: the retry of a region has failed.
C7_Witness == Rendering /\ err # "Ok" /\ Top.attempt = 2

(* C8: packed layout is a greedy fill: each item after the first, with the *)
(* delimiter that follows it, goes on the current line unless that would   *)
(* exceed max_columns, and then on a new line indented to the column of    *)
(* the first item.                                                         *)
IsPacked ==
    /\ root.kind = "TupleLike"
    /\ root.items # <<>>
    /\ \A i \in 1..Len(root.items) : root.items[i].kind = "tok"

Closer(i) == IF i < Len(root.items) THEN root.delimiters[i] ELSE root.close

RECURSIVE GreedyFill(_, _, _)
GreedyFill(i, out, col) ==
    IF i > Len(root.items) THEN out
    ELSE LET piece == Slice(root.items[i].token) \o Slice(Closer(i))
             first == Len(Slice(root.open))
         IN  IF col + 1 + Len(piece) > max_columns
             THEN GreedyFill(i + 1, out \o <<NL>> \o Repeat(SP, first) \o piece,
                             first + Len(piece))
             ELSE GreedyFill(i + 1, out \o <<SP>> \o piece, col + 1 + Len(piece))

PackedHead == Slice(root.open) \o Slice(root.items[1].token) \o Slice(Closer(1))

IsNonPacked ==
    /\ root.kind \in {"TupleLike", "Args"}
    /\ root.items # <<>>
    /\ ~IsPacked

ElemText(e, indent) ==
    IF e.kind = "tok" THEN Slice(e.token)
    ELSE Slice(e.head) \o <<NL>> \o Repeat(SP, indent) \o Slice(e.tail)

\* The column after an element that started at column col.
ElemEnd(e, col, indent) ==
    IF e.kind = "tok" THEN col + Len(Slice(e.token))
    ELSE indent + Len(Slice(e.tail))

RECURSIVE RestFits(_, _)
RestFits(i, col) ==
    IF i > Len(root.items) THEN TRUE
    ELSE LET e == root.items[i]
             end == col + 1 + Len(Slice(e.token)) + Len(Slice(Closer(i)))
         IN  e.kind = "tok" /\ end <= max_columns /\ RestFits(i + 1, end)

FirstIndent == Len(Slice(root.open))

FirstEnd == ElemEnd(root.items[1], FirstIndent, FirstIndent) + Len(Slice(Closer(1)))

RECURSIVE Shape(_, _)
Shape(i, sep) ==
    IF i > Len(root.items) THEN <<>>
    ELSE (IF i = 1 THEN Slice(root.open) ELSE sep)
         \o ElemText(root.items[i], FirstIndent) \o Slice(Closer(i))
         \o Shape(i + 1, sep)

OneLine == Shape(1, <<SP>>)

OnePerLine == Shape(1, <<NL>> \o Repeat(SP, FirstIndent))

C9_NonPackedAllOrNothing ==
    (pc = "done" /\ IsNonPacked) =>
        Output = IF RestFits(2, FirstEnd) THEN OneLine ELSE OnePerLine

\* C9 witness: a non-packed sequence of three items where the second would
\* fit on the first line and the third does not: all start on their own line.
C9_Witness ==
    /\ pc = "done"
    /\ IsNonPacked
    /\ Len(root.items) = 3
    /\ root.items[2].kind = "tok"
    /\ FirstEnd + 1 + Len(Slice(root.items[2].token)) + 1 <= max_columns
    /\ ~RestFits(2, FirstEnd)
    /\ Output = OnePerLine

(* C10, as stated: a region with indent policy Inherit or Offset nested    *)
(* under another such region, whatever the policies of the regions between *)
(* them, has an indent no smaller than its ancestor's.                     *)
C10_IndentMonotone ==
    \A i, j \in 1..Len(frames) :
        (i < j /\ InheritOrOffset(frames[i]) /\ InheritOrOffset(frames[j]))
        => frames[j].indent >= frames[i].indent

(* C10, amended: the indent of the descendant is no smaller than the       *)
(* ancestor's when every region on the path from the one to the other has  *)
(* indent policy Inherit or Offset.                                        *)
C10_IndentMonotoneOnPath ==
    \A i, j \in 1..Len(frames) :
        (i < j /\ \A k \in i..j : InheritOrOffset(frames[k]))
        => frames[j].indent >= frames[i].indent

\* C10 witness: an Inherit region inside an Offset region inside an Inherit
\* or Offset region, deeper than the outermost of them.
C10_Witness ==
    \E i, j \in 1..Len(frames) :
        /\ i + 1 < j
        /\ \A k \in i..j : InheritOrOffset(frames[k])
        /\ frames[j].indent > frames[i].indent

\* The transaction that was active when frames[k] was entered, and the
\* transaction of its current attempt.
ParentTx(k) == writer[k]
AttemptTx(k) == writer[k + 1]

\* The step is the start of the retry of the innermost region.
RetryStarts ==
    /\ Len(frames') = Len(frames)
    /\ Len(writer') = Len(writer)
    /\ Last(frames').attempt = 2

(* C11: when the first attempt of a region that did not set                *)
(* check_multi_line_parent fails with MultiLine while it forbade           *)
(* multi-line output, or with LineTooLong while it forbade too-long lines, *)
(* the region is retried with allow_multi_line = true, needs_newline =     *)
(* true and multi_line_mode = false.                                       *)
C11_OwnFailureRetry ==
    [][ ( /\ Rendering /\ Top.attempt = 1 /\ ~Top.check_multi_line_parent
          /\ \/ err = "MultiLine" /\ ~Top.allow_multi_line
             \/ err = "LineTooLong" /\ ~Top.allow_too_long_line )
        => ( /\ RetryStarts
             /\ Last(frames').retry_needs_newline
             /\ config(writer').allow_multi_line
             /\ ~config(writer').multi_line_mode ) ]_vars

\* C11 witness: a region is in the retry its own MultiLine or LineTooLong
\* caused.
C11_Witness ==
    /\ Rendering
    /\ Top.attempt = 2
    /\ Top.retry_needs_newline
    /\ ~Top.retry_multi_line_mode
    /\ ~Top.allow_multi_line \/ ~Top.allow_too_long_line

(* C12: when the first attempt of a region that did not set                *)
(* check_multi_line_parent fails with MultiLineParent, the region is       *)
(* retried with allow_multi_line = true and multi_line_mode = true; and a  *)
(* region with multi_line_parent entered under a transaction in multi-line *)
(* mode starts with a newline and does not set check_multi_line_parent.    *)
C12_ParentSignalRetry ==
    [][ /\ ( /\ Rendering /\ Top.attempt = 1 /\ ~Top.check_multi_line_parent
             /\ err = "MultiLineParent" )
           => ( /\ RetryStarts
                /\ config(writer').allow_multi_line
                /\ config(writer').multi_line_mode )
        /\ \A k \in 1..Len(frames') :
             ( /\ writer'[k].config.multi_line_mode
               /\ frames'[k].newline.multi_line_parent )
             => ( frames'[k].needs_newline
                  /\ ~frames'[k].check_multi_line_parent ) ]_vars

\* C12 witness: inside the retry in multi-line mode, a child region with
\* multi_line_parent has been entered with needs_newline.
C12_Witness ==
    /\ Rendering
    /\ Len(frames) >= 2
    /\ frames[Len(frames) - 1].attempt = 2
    /\ ParentTx(Len(frames)).config.multi_line_mode
    /\ Top.newline.multi_line_parent
    /\ Top.needs_newline

(* C13: a region whose policy is If with multi_line_parent, entered under  *)
(* a transaction that is not in multi-line mode, sets                      *)
(* check_multi_line_parent; whatever error its body fails with, it does    *)
(* not retry: its transaction is aborted and MultiLineParent is returned   *)
(* to the enclosing region.                                                *)
C13_SignalNotRetried ==
    [][ /\ ( Rendering /\ err # "Ok" /\ Top.check_multi_line_parent )
           => ( /\ err' = "MultiLineParent"
                /\ frames' = Front(frames)
                /\ writer' = Front(writer) )
        /\ \A k \in 1..Len(frames') :
             /\ frames'[k].check_multi_line_parent
                <=> ( /\ frames'[k].newline.kind = "If"
                      /\ frames'[k].newline.multi_line_parent
                      /\ ~writer'[k].config.multi_line_mode )
             /\ frames'[k].check_multi_line_parent => frames'[k].attempt = 1 ]_vars

\* C13 witness: a region has returned MultiLineParent from its first attempt
\* after its body failed with LineTooLong or MultiLine, having written text.
C13_Witness ==
    /\ ret.result = "MultiLineParent"
    /\ ret.attempt = 1
    /\ ret.body # <<>>
    /\ Rendering

(* C14: the MultiLineParent signal is consumed inside the tree: the root   *)
(* region never returns MultiLineParent to to_string.                      *)
C14_SignalConsumed ==
    ~(frames = <<>> /\ pc = "panic" /\ ret.result = "MultiLineParent")

(* C15: on entry to a region needs_newline is true exactly when the policy *)
(* is Always, or is If with multi_line_parent while the transaction active *)
(* at entry is in multi-line mode.                                         *)
C15_NeedsNewline ==
    \A k \in 1..Len(frames) :
        frames[k].needs_newline
        <=> \/ frames[k].newline.kind = "Always"
            \/ /\ frames[k].newline.kind = "If"
               /\ frames[k].newline.multi_line_parent
               /\ ParentTx(k).config.multi_line_mode

\* C15 witness: a region with policy Always has been entered.
C15_Witness ==
    /\ Rendering
    /\ Top.newline.kind = "Always"
    /\ Top.needs_newline
    /\ ~ParentTx(Len(frames)).config.multi_line_mode

(* C16, as stated: allow_multi_line of the first attempt is false exactly  *)
(* when the policy is If with multi_line set and the transaction active at *)
(* entry is not in multi-line mode.                                        *)
C16_AllowMultiLine ==
    \A k \in 1..Len(frames) :
        ~frames[k].allow_multi_line
        <=> /\ frames[k].newline.kind = "If"
            /\ frames[k].newline.multi_line
            /\ ~ParentTx(k).config.multi_line_mode

(* C16, amended: allow_multi_line of the first attempt is false exactly    *)
(* when the policy is If with multi_line set, whatever the mode of the     *)
(* transaction active at entry, or is If with multi_line_parent set while  *)
(* that transaction is not in multi-line mode.                             *)
C16_AllowMultiLineByPolicy ==
    \A k \in 1..Len(frames) :
        ~frames[k].allow_multi_line
        <=> /\ frames[k].newline.kind = "If"
            /\ \/ frames[k].newline.multi_line
               \/ /\ frames[k].newline.multi_line_parent
                  /\ ~ParentTx(k).config.multi_line_mode

\* C16 witness: a region with multi_line set, entered under a transaction in
\* multi-line mode, forbids multi-line output in its first attempt.
C16_Witness ==
    /\ Rendering
    /\ Top.newline.multi_line
    /\ ParentTx(Len(frames)).config.multi_line_mode
    /\ ~Top.allow_multi_line
    /\ Top.attempt = 1

\* The other case C16 misses: multi_line_parent without multi_line, under a
\* transaction that is not in multi-line mode.
C16_SignalCase ==
    /\ Rendering
    /\ Top.newline.multi_line_parent
    /\ ~Top.newline.multi_line
    /\ ~ParentTx(Len(frames)).config.multi_line_mode
    /\ ~Top.allow_multi_line

(* C17: the indent of a region is resolved at entry from the transaction   *)
(* active then: its indent for Inherit, its indent + n for Offset(n), the  *)
(* indent of the transaction below it + n for ParentOffset(n), its current *)
(* column if positive and else its indent for CurrentColumn; the first     *)
(* attempt and the retry both run with that indent.                        *)
C17_IndentResolved ==
    \A k \in 1..Len(frames) :
        LET p == ParentTx(k)
            kind == frames[k].policy.kind
            n == frames[k].policy.n
            below == IF k >= 2 THEN writer[k - 1].config.indent ELSE 0
        IN  /\ kind = "Inherit" => frames[k].indent = p.config.indent
            /\ kind = "Offset" => frames[k].indent = p.config.indent + n
            /\ kind = "ParentOffset" => frames[k].indent = below + n
            /\ kind = "CurrentColumn" =>
                   frames[k].indent = IF p.state.current_column > 0
                                      THEN p.state.current_column
                                      ELSE p.config.indent
            /\ AttemptTx(k).config.indent = frames[k].indent

\* C17 witness: a ParentOffset region under a transaction whose indent is
\* not the indent of the transaction below it.
C17_Witness ==
    \E k \in 2..Len(frames) :
        /\ frames[k].policy.kind = "ParentOffset"
        /\ writer[k].config.indent # writer[k - 1].config.indent

(* C18: a retry that needs a leading newline asks for it only if the       *)
(* current column at the start of the retry is greater than the region's   *)
(* indent; otherwise it starts with the pending whitespace it found.       *)
C18_RetryNewlineGuard ==
    [][ ( /\ Rendering /\ Top.attempt = 1 /\ RetryStarts
          /\ Last(frames').retry_needs_newline )
        => LET found == writer[Len(writer) - 1].state
           IN  /\ Last(writer').state.formatted_text = <<>>
               /\ Last(writer').state.needs_whitespace =
                      IF Top.indent < found.current_column
                      THEN "Newline" ELSE found.needs_whitespace ]_vars

\* C18 witness: a retry that needs a newline has started in the middle of a
\* line, at a column not beyond its indent, and has asked for none.
C18_Witness ==
    /\ Rendering
    /\ Top.attempt = 2
    /\ Top.i = 1
    /\ Top.retry_needs_newline
    /\ Top.entry.current_column > 0
    /\ Top.indent >= Top.entry.current_column
    /\ Last(writer).state.needs_whitespace # "Newline"

\* The characters write tells apart besides the newline: the space, and a
\* character of a lexeme of the source.
VisibleChars == { SP, CHOOSE c \in Chars(text) : ~IsBlank(c) }

(* C19: writing a newline fails with the multi-line error and appends      *)
(* nothing when the active transaction's configuration forbids multi-line  *)
(* output; otherwise the newline is appended and current_column becomes 0. *)
C19_NewlineWrite ==
    pc = "tx" =>
        LET n == Len(writer)
            r == Tx_write(writer, <<NL>>)
        IN  IF writer[n].config.multiline_mode = "Forbid"
            THEN r.err = "Multiline" /\ r.writer = writer
            ELSE /\ r.err = "Ok"
                 /\ r.writer = [writer EXCEPT
                                  ![n].state.formatted_text = Append(@, NL),
                                  ![n].state.current_column = 0]

\* C19 witness: a newline has been written in the middle of a line, and a
\* later newline has failed in a transaction that forbids multi-line output.
C19_Witness ==
    /\ pc = "tx"
    /\ err = "Multiline"
    /\ config(writer).multiline_mode = "Forbid"
    /\ \E i \in 2..Len(formatted_text(writer)) : formatted_text(writer)[i] = NL

C21_EveryCharAtIndent ==
    [][ (pc = "tx" /\ Len(writer') = Len(writer))
        => LET n == Len(writer)
               old == writer[n].state.formatted_text
               new == writer'[n].state.formatted_text
               base == Len(formatted_text(Front(writer')))
               whole == formatted_text(writer')
               known == \/ writer[n].state.indent # <<>>
                        \/ writer[n].config.indent.kind # "CurrentColumn"
               indent == Tx_calc_indent(writer, n).indent
           IN  known =>
                   \A j \in (Len(old) + 1)..Len(new) :
                       ~IsBlank(new[j]) =>
                           (base + j) - LineStart(whole, base + j) - 1 >= indent ]_vars

(* C21, amended: a character other than a space or a newline that          *)
(* Transaction::write writes lands at a column >= the indent of the active *)
(* transaction: below the indent, spaces are appended first up to the      *)
(* indent; a space is never padded. (write_comment appends the comment's   *)
(* slice without calling write.)                                           *)
C21_PaddedToIndent ==
    pc = "tx" =>
        \A c \in VisibleChars :
            LET n == Len(writer)
                col == writer[n].state.current_column
                indent == Tx_calc_indent(writer, n).indent
                r == Tx_write(writer, <<c>>)
                pad == IF c # SP /\ col < indent THEN indent - col ELSE 0
            IN  r.err = "Ok" =>
                    /\ r.writer[n].state.formatted_text =
                           writer[n].state.formatted_text \o Repeat(SP, pad) \o <<c>>
                    /\ r.writer[n].state.current_column = col + pad + 1
                    /\ c # SP => col + pad >= indent

\* C21 witness: a transaction with a positive indent has written a token at
\* the start of a line, after as many spaces as its indent.
C21_Witness ==
    /\ pc = "tx"
    /\ err = "Ok"
    /\ formatted_text(Front(writer)) = <<>>
    /\ Last(writer).state.indent # <<>>
    /\ LET indent == Last(writer).state.indent[1]
           t == Last(writer).state.formatted_text
       IN  /\ indent > 0
           /\ Len(t) > indent
           /\ \A j \in 1..indent : t[j] = SP
           /\ ~IsBlank(t[indent + 1])

\* The index in out of a character of the source.
IndexIn(out, c) == CHOOSE i \in 1..Len(out) : out[i] = c

(* C22: write_item of a token whose source line is more than one below    *)
(* next_position.line leaves an empty line in the output between what was  *)
(* written before and the token.                                           *)
C22_BlankLineKept ==
    (pc = "tx" /\ err = "Ok") =>
        \A i \in 1..Len(tokens) :
            LET item == tokens[i]
                r == Tx_write_item(writer, text, item)
                out == formatted_text(r.writer)
                b == IndexIn(out, text[item.start.offset + 1])
                ls == LineStart(out, b)
            IN  ( /\ r.err = "Ok"
                  /\ formatted_text(writer) # <<>>
                  /\ next_position(writer).offset <= item.start.offset
                  /\ next_position(writer).line + 1 < item.start.line )
                => ls >= 2 /\ out[ls - 1] = NL

\* What a call has appended to the active transaction: r is its result.
Appended(w, r) ==
    SubSeq(Last(r.writer).state.formatted_text,
           Len(Last(w).state.formatted_text) + 1,
           Len(Last(r.writer).state.formatted_text))

(* C23: write_item writes the source from max(item.start, next_position)   *)
(* to item.end and nothing below next_position.offset; an item that is     *)
(* empty or ends at or before next_position leaves the transaction as it   *)
(* was; next_position.offset never decreases.                              *)
C23_WriteItemForward ==
    pc = "tx" =>
        \A item \in TxItems :
            LET r == Tx_write_item(writer, text, item)
                np == next_position(writer).offset
                start == Max(item.start.offset, np)
                wrote == SelectSeq(Appended(writer, r), LAMBDA c : ~IsBlank(c))
                slice == SubSeq(text, start + 1, item.end.offset)
            IN  /\ (is_empty(item) \/ item.end.offset <= np)
                    => r = [writer |-> writer, err |-> "Ok"]
                /\ \A k \in 1..Len(wrote) : wrote[k] >= np + 2
                /\ (r.err = "Ok" /\ ~is_empty(item) /\ item.end.offset > np)
                    => /\ wrote = SelectSeq(slice, LAMBDA c : ~IsBlank(c))
                       /\ next_position(r.writer) = item.end
                /\ next_position(r.writer).offset >= np

\* C23 witness: both tokens have been written, the first of them once, and
\* next_position is the end of the second.
C23_Witness ==
    /\ pc = "tx"
    /\ err = "Ok"
    /\ Len(tokens) = 2
    /\ next_position(writer) = tokens[2].end
    /\ SelectSeq(formatted_text(writer), LAMBDA c : ~IsBlank(c)) = Concat(tokens)

(* C24: write_comment leaves a pending newline and appends the comment's   *)
(* slice as it is, without padding; nothing but the comment itself follows *)
(* a comment on its line of the output.                                    *)
C24_CommentEndsLine ==
    pc = "tx" =>
        /\ \A k \in 1..Len(comments) :
               LET r == Tx_write_comment(writer, text, comments[k])
                   added == Appended(writer, r)
                   slice == Slice(comments[k])
                   sep == SubSeq(added, 1, Len(added) - Len(slice))
               IN  (Returned /\ r.err = "Ok") =>
                       /\ Last(r.writer).state.needs_whitespace = "Newline"
                       /\ added = sep \o slice
                       /\ sep \in { <<>>, <<NL>>, <<NL, NL>>, <<SP, SP>> }
                       /\ next_position(r.writer) = comments[k].end
        /\ LET out == formatted_text(writer) IN
           \A i, j \in 1..Len(out) :
               ( /\ i < j /\ SameLine(out, i, j)
                 /\ out[i] \in CommentChars /\ ~IsBlank(out[j]) )
               => /\ out[j] \in CommentChars
                  /\ LexemeOf(out[j]) = LexemeOf(out[i])

\* C24 witness: a token has been written after a comment, on the next line.
C24_Witness ==
    /\ pc = "tx"
    /\ err = "Ok"
    /\ LET out == formatted_text(writer) IN
       \E i \in 1..Len(out) :
           /\ i + 2 <= Len(out)
           /\ out[i] \in CommentChars
           /\ out[i + 1] = NL
           /\ ~IsBlank(out[i + 2])
           /\ out[i + 2] \notin CommentChars

\* The items of a tree that are not regions, depth first and left to right.
RECURSIVE Flat(_)
RECURSIVE FlatOf(_)
Flat(it) == IF it.type = "Region" THEN FlatOf(it.items) ELSE <<it>>
FlatOf(items) ==
    IF items = <<>> THEN <<>> ELSE Flat(Head(items)) \o FlatOf(Tail(items))

\* The step is a call of add_token.
AddsToken == pc = "build" /\ IsAny /\ built'.tokens = built.tokens + 1

(* C25: add_token of a token that needs a space after the token added      *)
(* before it puts one Space(1), the comments that are due, and the token   *)
(* at the end of the tree; in the output the two tokens are never          *)
(* adjacent: a space or a newline follows the first.                       *)
C25_TokensSeparated ==
    /\ [][ ( /\ AddsToken
             /\ fmt.last_token # <<>>
             /\ needs_space(fmt.last_token[1], tokens[built.tokens + 1]) )
           => LET old == Flat(fmt.item)
                  new == Flat(fmt'.item)
                  added == SubSeq(new, Len(old) + 1, Len(new))
              IN  /\ SubSeq(new, 1, Len(old)) = old
                  /\ Len(added) >= 2
                  /\ Head(added) = Space(1)
                  /\ Last(added) = tokens[built.tokens + 1]
                  /\ \A k \in 2..(Len(added) - 1) : added[k].type = "Comment" ]_vars
    /\ [](pc = "done" =>
            \A k \in 1..(Len(tokens) - 1) :
                needs_space(tokens[k], tokens[k + 1]) =>
                    LET a == IndexIn(Output, text[tokens[k].end.offset])
                        b == IndexIn(Output, text[tokens[k + 1].start.offset + 1])
                    IN  a + 1 < b /\ IsBlank(Output[a + 1]))

\* C25 witness: two tokens that need a space have been written, the second
\* in a region of its own, after a retry.
C25_Witness ==
    /\ pc = "done"
    /\ IsAny
    /\ Len(tokens) = 2
    /\ needs_space(tokens[1], tokens[2])
    /\ \E k \in 1..Len(tree.items) :
           /\ tree.items[k].type = "Region"
           /\ Flat(tree.items[k]) = <<Space(1), tokens[2]>>

RECURSIVE WholeFlat(_, _)
WholeFlat(ps, it) ==
    IF ps = <<>> THEN Flat(it) ELSE Flat(Head(ps)) \o WholeFlat(Tail(ps), it)

\* The region at the end of the last descendant region chain of a region,
\* and the number of regions on the way to it.
RECURSIVE LastRegion(_)
LastRegion(it) ==
    IF it.items # <<>> /\ Last(it.items).type = "Region"
    THEN LastRegion(Last(it.items)) ELSE it

RECURSIVE ChainDepth(_)
ChainDepth(it) ==
    IF it.items # <<>> /\ Last(it.items).type = "Region"
    THEN 1 + ChainDepth(Last(it.items)) ELSE 0

(* C27: every builder call leaves the items emitted before it where they   *)
(* were in the depth-first order of the tree and puts what it emits after  *)
(* them, so the tokens of the tree are in source order; add_token puts the *)
(* token at the end of the last descendant region chain, and so does       *)
(* subregion with the region it completes.                                 *)
C27_EmitOrder ==
    /\ [][ (pc = "build" /\ pc' = "build")
           => LET old == WholeFlat(parents, fmt.item)
                  new == WholeFlat(parents', fmt'.item)
              IN  /\ Len(new) >= Len(old)
                  /\ SubSeq(new, 1, Len(old)) = old
                  /\ (AddsToken /\ IsAny) =>
                         /\ Last(new) = tokens[built.tokens + 1]
                         /\ Last(LastRegion(fmt'.item).items) = tokens[built.tokens + 1]
                         /\ Len(new) = Len(old) + 1 =>
                                ChainDepth(fmt'.item) = ChainDepth(fmt.item)
                  /\ Len(parents') < Len(parents) =>
                         /\ new = old
                         /\ ChainDepth(fmt'.item) =
                                ChainDepth(Last(parents)) + 1 + ChainDepth(fmt.item) ]_vars
    /\ [](pc = "build" =>
            SelectSeq(Leaves(Region(Inherit, Never, parents \o <<fmt.item>>)), IsToken)
                = SubSeq(tokens, 1, built.tokens))

\* C27 witness: a token has been added after a subregion returned, with no
\* space between: it is inside the region the subregion completed.
C27_Witness ==
    /\ pc = "build"
    /\ IsAny
    /\ parents = <<>>
    /\ Len(tokens) >= 1
    /\ Len(fmt.item.items) = 1
    /\ fmt.item.items[1].type = "Region"
    /\ fmt.item.items[1].items # <<>>
    /\ Last(fmt.item.items[1].items) = tokens[1]
    /\ built.calls = 2

\* The step is the return of a subregion call, or its start.
SubregionReturns == pc = "build" /\ Len(parents') < Len(parents)
SubregionStarts == pc = "build" /\ Len(parents') > Len(parents)

\* The region d regions down the last descendant region chain.
RECURSIVE RegionAt(_, _)
RegionAt(it, d) == IF d = 0 THEN it ELSE RegionAt(Last(it.items), d - 1)

(* C28, as stated: the completed region becomes the last child of the      *)
(* region that was current when subregion was called, and a token emitted  *)
(* after subregion returned is not inside the completed region.            *)
C28_ChildOfCaller ==
    [][ /\ SubregionReturns =>
               fmt'.item = [Last(parents) EXCEPT !.items = Append(@, fmt.item)]
        /\ ( /\ AddsToken
             /\ fmt.item.items # <<>>
             /\ Last(fmt.item.items).type = "Region" )
           => Last(fmt'.item.items) = tokens[built.tokens + 1] ]_vars

(* C28, amended: subregion starts with an empty region of the given        *)
(* policies; when it returns, the region with exactly the items emitted    *)
(* meanwhile is appended at the end of the last descendant region chain of *)
(* the caller's region, which is the current region again; a token added   *)
(* next, with nothing emitted before it, goes inside the completed region. *)
C28_AppendedToChain ==
    [][ /\ SubregionStarts =>
               /\ fmt'.item.items = <<>>
               /\ parents' = Append(parents, fmt.item)
        /\ SubregionReturns =>
               LET caller == Last(parents)
                   d == ChainDepth(caller)
               IN  /\ parents' = Front(parents)
                   /\ fmt'.item.indent = caller.indent
                   /\ fmt'.item.newline = caller.newline
                   /\ RegionAt(fmt'.item, d).items =
                          Append(RegionAt(caller, d).items, fmt.item)
                   /\ Len(fmt'.item.items) =
                          Len(caller.items) + IF d = 0 THEN 1 ELSE 0
                   /\ Flat(fmt'.item) = Flat(caller) \o Flat(fmt.item)
        /\ ( /\ AddsToken
             /\ fmt.item.items # <<>>
             /\ Last(fmt.item.items).type = "Region"
             /\ Len(Flat(fmt'.item)) = Len(Flat(fmt.item)) + 1 )
           => /\ Len(fmt'.item.items) = Len(fmt.item.items)
              /\ Last(LastRegion(fmt'.item).items) = tokens[built.tokens + 1] ]_vars

\* C28 witness: two subregion calls made one after the other by the same
\* region have returned, and the second region is inside the first.
C28_Witness ==
    /\ pc = "build"
    /\ IsAny
    /\ parents = <<>>
    /\ built.calls = 2
    /\ Len(fmt.item.items) = 1
    /\ fmt.item.items[1].type = "Region"
    /\ Len(fmt.item.items[1].items) = 1
    /\ fmt.item.items[1].items[1].type = "Region"

(* C29: commit makes the parent the active transaction, its text the text  *)
(* it had when the child started followed by the child's, its              *)
(* next_position, current_column and pending whitespace the child's, its   *)
(* configuration what it was; the transactions below it are untouched.     *)
C29_CommitAbsorbs ==
    [][ pc = "tx" =>
          LET n == Len(writer) IN
          /\ (Len(writer') = n /\ n >= 2) =>
                 writer'[n - 1].state.formatted_text = writer[n - 1].state.formatted_text
          /\ Len(writer') > n =>
                 /\ writer'[n].state.formatted_text = writer[n].state.formatted_text
                 /\ writer'[n + 1].state.formatted_text = <<>>
          /\ (Len(writer') < n /\ writer' # Front(writer)) =>
                 LET parent == writer[n - 1]
                     child == writer[n]
                     after == writer'[n - 1]
                 IN  /\ Len(writer') = n - 1
                     /\ after.config = parent.config
                     /\ after.state.formatted_text =
                            parent.state.formatted_text \o child.state.formatted_text
                     /\ after.state.next_position = child.state.next_position
                     /\ after.state.current_column = child.state.current_column
                     /\ after.state.needs_whitespace = child.state.needs_whitespace
                     /\ after.state.indent = parent.state.indent
                     /\ SubSeq(writer', 1, n - 2) = SubSeq(writer, 1, n - 2) ]_vars

\* C29 witness: a child that allows too-long lines wrote past max_columns
\* and was committed: the root, which could not have written there, holds the
\* text of both tokens and the child's column.
C29_Witness ==
    /\ pc = "tx"
    /\ Len(writer) = 1
    /\ Len(tokens) = 2
    /\ SelectSeq(writer[1].state.formatted_text, LAMBDA c : ~IsBlank(c)) = Concat(tokens)
    /\ next_position(writer) = tokens[2].end
    /\ current_column(writer) > max_columns

(* C30: while a child is the active transaction, no call changes a field   *)
(* of a transaction below it, the cached indent included; a cached indent, *)
(* once computed, never changes.                                           *)
C30_AncestorsUntouched ==
    [][ pc = "tx" =>
          /\ Len(writer') = Len(writer) =>
                 \A k \in 1..(Len(writer) - 1) : writer'[k] = writer[k]
          /\ \A k \in 1..Len(writer) :
                 (k <= Len(writer') /\ writer[k].state.indent # <<>>
                    /\ ~(k = Len(writer') /\ Len(writer') < Len(writer)))
                 => writer'[k].state.indent = writer[k].state.indent ]_vars

(* C31: the renderer accepts every Space(n) and Newline(n) node the       *)
(* builder appends, whatever n >= 1 is: formatting such a node never ends  *)
(* in an assertion failure.                                                *)
C31_SpacesAccepted ==
    [][ (pc = "render" /\ AtItem /\ Item.type \in {"Space", "Newline"} /\ Item.n >= 1)
        => pc' # "panic" ]_vars

(* C32: the transaction stack is balanced while the renderer runs: every  *)
(* activation of format_region in progress holds exactly one transaction,  *)
(* the one its with_subregion started, directly above the stack it was     *)
(* entered with; a return (Ok or Err) ends that transaction and leaves the *)
(* depth of the entry; a retry ends it and starts one in its place; commit *)
(* and abort are never applied to the root transaction.                    *)
C32_StackBalanced ==
    /\ [](pc = "render" =>
            /\ Len(writer) = Len(frames) + 1
            /\ \A k \in 1..Len(frames) : frames[k].depth = k)
    /\ [](pc \in {"done", "panic"} /\ frames = <<>> /\ writer # <<>> => Len(writer) = 1)
    /\ [][ pc = "render" /\ Len(frames') < Len(frames) =>
             /\ Len(writer) >= 2
             /\ Len(writer') = Top.depth
             /\ Len(frames') = Len(frames) - 1 ]_vars
    /\ [][ pc = "render" /\ Len(frames') = Len(frames) /\ Top.attempt # Top'.attempt =>
             /\ Len(writer) >= 2
             /\ Len(writer') = Top.depth + 1
             /\ Front(writer') = abort(writer) ]_vars

\* A retry inside a nested region has failed and format_region has returned
\* the error to its caller, whose transaction is the top of the stack again.
C32_Witness ==
    /\ pc = "render"
    /\ ret.result \notin {"None", "Ok"}
    /\ ret.attempt = 2
    /\ err # "Ok"
    /\ Len(frames) >= 1
    /\ Len(writer) = Top.depth + 1

\* The second byte of a two-byte character: the last byte of a comment
\* that ends with one.
IsContinuation(c) ==
    \E i \in 1..Len(comments) :
        comments[i].kind = "comment_utf8" /\ c = comments[i].end.offset + 1

\* The characters of the last line of out: what follows its last newline.
LastLine(out) ==
    LET nls == { i \in 1..Len(out) : out[i] = NL }
        from == IF nls = {} THEN 1 ELSE (CHOOSE i \in nls : \A j \in nls : j <= i) + 1
    IN  SelectSeq(SubSeq(out, from, Len(out)), LAMBDA c : ~IsContinuation(c))

(* C33: in every state the active transaction's current_column is the      *)
(* number of characters after the last newline of the text written so far, *)
(* the formatted_text of the transactions from the root to the active one. *)
C33_ColumnIsLineLength ==
    pc = "tx" => current_column(writer) = Len(LastLine(formatted_text(writer)))

\* The calls that write: needs_whitespace, write_item and write_comment
\* with their arguments.
TxCalls ==
    { [call |-> "needs_whitespace", whitespace |-> ws] : ws \in {"Blank", "Newline"} }
    \cup { [call |-> "write_item", item |-> item] : item \in TxItems }
    \cup { [call |-> "write_comment", comment |-> comments[i]] : i \in 1..Len(comments) }

MaxRun == 2

\* The calls of ops made one after the other on the active transaction of
\* r.writer, up to the first that fails.
RECURSIVE TxRun(_, _)
TxRun(r, ops) ==
    IF ops = <<>> \/ r.err # "Ok" THEN r
    ELSE LET op == Head(ops)
             r1 == CASE op.call = "needs_whitespace" ->
                          [writer |-> needs_whitespace(r.writer, op.whitespace),
                           err |-> "Ok"]
                     [] op.call = "write_item" -> Tx_write_item(r.writer, text, op.item)
                     [] op.call = "write_comment" ->
                          Tx_write_comment(r.writer, text, op.comment)
         IN  TxRun(r1, Tail(ops))

\* What a caller sees of the active transaction.
Seen(w) ==
    [formatted_text |-> formatted_text(w),
     current_column |-> current_column(w),
     next_position |-> next_position(w),
     needs_whitespace |-> Last(w).state.needs_whitespace]

\* A child that changes nothing in the configuration of the active transaction.
SameConfig(w) ==
    TransactionConfig(IndentMode_CurrentIndent, Last(w).config.max_columns,
                      Last(w).config.multiline_mode)

(* C34: a child transaction with the parent's max_columns and multiline    *)
(* mode and the indent mode CurrentIndent is transparent: calls that        *)
(* succeed in it, followed by commit, leave the text, the column, the next  *)
(* position and the pending whitespace that the same calls leave when made  *)
(* on the parent itself.                                                    *)
C34_ChildTransparent ==
    (pc = "tx" /\ err = "Ok") =>
        \A ops \in SeqsUpTo(TxCalls, MaxRun) :
            LET inner == TxRun([writer |-> Tx_start_new_transaction(writer, SameConfig(writer)),
                                err |-> "Ok"], ops)
                direct == TxRun([writer |-> writer, err |-> "Ok"], ops)
            IN  inner.err = "Ok" =>
                    /\ direct.err = "Ok"
                    /\ Seen(commit(inner.writer)) = Seen(direct.writer)

====
